---- MODULE Spec2Model ----
(***************************************************************************)
(* Nest Run Ledger and nesting engine of the SSE steel tracker.            *)
(*                                                                         *)
(* Sources: src/routes_phase25.py (run_nest, delete_nest_run,              *)
(* unnest_parts, disposition_drop), src/nesting.py (nest_linear),          *)
(* src/models_phase25.py (NestRun, NestRunItem, NestRunDrop,               *)
(* MaterialInventory, StockConfig).                                        *)
(*                                                                         *)
(* Numbers.  The code computes with Python floats in inches.  Every length *)
(* of the model is an integer number of eighths of an inch, so that the    *)
(* default kerf of 0.125 in is 1, the v1 kerf of 0.25 in is 2 and the drop *)
(* threshold of 6 in is 48.  Areas are in square eighths.  All inputs are  *)
(* drawn from values that are exact in this unit.                          *)
(*                                                                         *)
(* Strings.  Dimension strings are sequences of one-character strings so   *)
(* that the splitting and fraction parsing of the plate path is computed   *)
(* and not assumed.  No modelled string contains the character "|", so a   *)
(* grouping key f"{shape}|{dimensions}|{grade}" is the triple of its       *)
(* fields.                                                                 *)
(*                                                                         *)
(* Indices.  Python lists are 0-based, TLA+ sequences 1-based: orig_idx    *)
(* inside the packers is 1-based, the persisted stock_index and            *)
(* cut_position keep the code's 0-based values.                            *)
(***************************************************************************)
EXTENDS Integers, Sequences, FiniteSets, TLC

\* ---------------------------------------------------------------------------
\* Units and program constants
\* ---------------------------------------------------------------------------
UnitsPerInch == 8
InchesPerFoot == 12
\* stock_overrides: {"HSS": [20, 24]} in feet; the numbers of a request are
\* counted in sixteenths of a foot
OverrideUnitsPerFoot == 16
Inch(n) == n * UnitsPerInch
Feet(n) == n * InchesPerFoot * UnitsPerInch

\* kerf = stock_cfg.kerf_inches if stock_cfg else 0.125
DefaultKerf == 1
\* avail_inches = [480]  (40 ft default)
DefaultStockInches == 480
\* if drop_inches > 6
DropThresholdInches == 6
\* nesting.py: KERF = 0.25
KERF == 2

\* ---------------------------------------------------------------------------
\* Bounds of the model
\* ---------------------------------------------------------------------------
NumParts == 2
MaxPartIds == 2
MaxRuns == 2
MaxQuantity == 2
MaxPieces == 3

\* ---------------------------------------------------------------------------
\* Sequence helpers
\* ---------------------------------------------------------------------------
RECURSIVE SumSeq(_)
SumSeq(s) == IF s = <<>> THEN 0 ELSE Head(s) + SumSeq(Tail(s))

RECURSIVE MaxSeq(_)
MaxSeq(s) ==
    IF Len(s) = 1 THEN Head(s)
    ELSE LET m == MaxSeq(Tail(s)) IN IF Head(s) >= m THEN Head(s) ELSE m

RECURSIVE InsertAsc(_, _)
InsertAsc(s, x) ==
    IF s = <<>> THEN <<x>>
    ELSE IF Head(s) <= x THEN <<Head(s)>> \o InsertAsc(Tail(s), x)
    ELSE <<x>> \o s

\* sorted(list): ascending
RECURSIVE SortedAsc(_)
SortedAsc(s) ==
    IF s = <<>> THEN <<>>
    ELSE InsertAsc(SortedAsc(SubSeq(s, 1, Len(s) - 1)), s[Len(s)])

RECURSIVE Repeat(_, _)
Repeat(x, n) == IF n <= 0 THEN <<>> ELSE <<x>> \o Repeat(x, n - 1)

\* every sequence over S of length 0..n
SeqsUpTo(S, n) == UNION {[1..k -> S] : k \in 0..n}

\* str.upper() on the strings and characters of the model
Upper(s) ==
    CASE s = "w" -> "W"
      [] s = "x" -> "X"
      [] s = "a" -> "A"
      [] s = "pl" -> "PL"
      [] s = "plate" -> "PLATE"
      [] s = "a992" -> "A992"
      [] OTHER -> s

\* str.upper() on a sequence of characters
UpperSeq(s) == [i \in DOMAIN s |-> Upper(s[i])]

\* ---------------------------------------------------------------------------
\* Dimension strings (sequences of characters) and their parsing
\* ---------------------------------------------------------------------------
Digits == {"0", "1", "2", "3", "4", "5", "6", "7", "8", "9"}

DigitVal(c) ==
    CASE c = "0" -> 0 [] c = "1" -> 1 [] c = "2" -> 2 [] c = "3" -> 3
      [] c = "4" -> 4 [] c = "5" -> 5 [] c = "6" -> 6 [] c = "7" -> 7
      [] c = "8" -> 8 [] c = "9" -> 9

\* \d+
AllDigits(s) == s # <<>> /\ \A i \in DOMAIN s : s[i] \in Digits

RECURSIVE NatVal(_)
NatVal(s) ==
    IF s = <<>> THEN 0
    ELSE 10 * NatVal(SubSeq(s, 1, Len(s) - 1)) + DigitVal(s[Len(s)])

RECURSIVE LStrip(_)
LStrip(s) == IF s # <<>> /\ Head(s) = " " THEN LStrip(Tail(s)) ELSE s

RECURSIVE RStrip(_)
RStrip(s) ==
    IF s # <<>> /\ s[Len(s)] = " " THEN RStrip(SubSeq(s, 1, Len(s) - 1)) ELSE s

\* str.strip()
Strip(s) == RStrip(LStrip(s))

IsQuote(c) == c \in {"\"", "'"}
IsNotQuote(c) == ~IsQuote(c)

\* .strip().replace('"', '').replace("'", "")
Unquote(s) == SelectSeq(Strip(s), IsNotQuote)

\* position of the first character of s that is in C, 0 when there is none
FirstIn(s, C) ==
    IF \E i \in DOMAIN s : s[i] \in C
    THEN CHOOSE i \in DOMAIN s : s[i] \in C /\ \A j \in 1..(i - 1) : s[j] \notin C
    ELSE 0

CountIn(s, C) == Cardinality({i \in DOMAIN s : s[i] \in C})

\* re.split(r'[xX]', s, maxsplit=1)
SplitX(s) ==
    LET i == FirstIn(s, {"x", "X"})
    IN  IF i = 0 THEN <<s>>
        ELSE <<SubSeq(s, 1, i - 1), SubSeq(s, i + 1, Len(s))>>

\* float(s) of a string, in eighths; Bad when float() raises ValueError.
\* Modelled for the forms  digits  and  digits.digits  (surrounding blanks
\* are accepted by float()).
Bad == 0 - 1

\* integer part ip and fraction part fp of  ip.fp
FloatOfParts(ip, fp) ==
    IF (ip = <<>> \/ AllDigits(ip)) /\ (fp = <<>> \/ AllDigits(fp))
       /\ ~(ip = <<>> /\ fp = <<>>) /\ Len(fp) <= 3
    THEN NatVal(ip) * UnitsPerInch
         + (NatVal(fp) * UnitsPerInch)
           \div (IF Len(fp) = 0 THEN 1 ELSE IF Len(fp) = 1 THEN 10
                 ELSE IF Len(fp) = 2 THEN 100 ELSE 1000)
    ELSE Bad

\* s is the stripped string, d the position of its first "." (0 when none)
FloatOfStripped(s, d) ==
    IF d = 0
    THEN IF AllDigits(s) THEN NatVal(s) * UnitsPerInch ELSE Bad
    ELSE FloatOfParts(SubSeq(s, 1, d - 1), SubSeq(s, d + 1, Len(s)))

FloatEighths(str) == FloatOfStripped(Strip(str), FirstIn(Strip(str), {"."}))

\* whole + num/den, in eighths; 0 on ZeroDivisionError
MixedEighths(whole, num, den) ==
    IF den = 0 THEN 0
    ELSE whole * UnitsPerInch + (num * UnitsPerInch) \div den

LeadingDigits(s) ==
    IF \E i \in DOMAIN s : s[i] \notin Digits
    THEN FirstIn(s, {s[i] : i \in {j \in DOMAIN s : s[j] \notin Digits}}) - 1
    ELSE Len(s)

\* the three groups of ^(\d+)<sep>(\d+)/(\d+)$ where the separator is one or
\* more blanks (sepBlank) or exactly one dash; <<>> when s does not match
\* length of the separator at the head of rest
SepLen(rest, sepBlank) ==
    IF sepBlank THEN Len(rest) - Len(LStrip(rest))
    ELSE IF rest # <<>> /\ Head(rest) = "-" THEN 1 ELSE 0

\* rest is what follows the a leading digits of left, k the length of the
\* separator at its head, c the denominator
MatchSep(left, a, rest, k, c) ==
    IF a > 0 /\ k > 0 /\ AllDigits(SubSeq(rest, k + 1, Len(rest))) /\ AllDigits(c)
    THEN <<SubSeq(left, 1, a), SubSeq(rest, k + 1, Len(rest)), c>>
    ELSE <<>>

\* left and c are the text before and after the first "/"
MatchLeft(left, a, c, sepBlank) ==
    MatchSep(left, a, SubSeq(left, a + 1, Len(left)),
             SepLen(SubSeq(left, a + 1, Len(left)), sepBlank), c)

MatchMixed(s, sepBlank) ==
    IF FirstIn(s, {"/"}) = 0 THEN <<>>
    ELSE MatchLeft(SubSeq(s, 1, FirstIn(s, {"/"}) - 1),
                   LeadingDigits(SubSeq(s, 1, FirstIn(s, {"/"}) - 1)),
                   SubSeq(s, FirstIn(s, {"/"}) + 1, Len(s)), sepBlank)

\* _parse_mixed_fraction: '6 1/8', '1-1/2', '3/4', '12' -> float (eighths)
\* float(num) / float(den); 0 on ValueError and ZeroDivisionError
SimpleFraction(num, den) ==
    IF num = Bad \/ den = Bad \/ den = 0 THEN 0
    ELSE (num * UnitsPerInch) \div den

\* float(s); 0 on ValueError
FloatOrZero(v) == IF v = Bad THEN 0 ELSE v

\* s is the stripped string, m1 and m2 its matches against the two mixed
\* patterns, i the position of its first "/"
ParseStripped(s, m1, m2, i) ==
    IF s = <<>> THEN 0
    ELSE IF m1 # <<>> THEN MixedEighths(NatVal(m1[1]), NatVal(m1[2]), NatVal(m1[3]))
    ELSE IF m2 # <<>> THEN MixedEighths(NatVal(m2[1]), NatVal(m2[2]), NatVal(m2[3]))
    ELSE IF i # 0
    THEN \* num, den = s.split("/") raises ValueError unless exactly one "/"
         IF CountIn(s, {"/"}) # 1 THEN 0
         ELSE SimpleFraction(FloatEighths(SubSeq(s, 1, i - 1)),
                             FloatEighths(SubSeq(s, i + 1, Len(s))))
    ELSE FloatOrZero(FloatEighths(s))

ParseMixedFraction(str) ==
    ParseStripped(Strip(str), MatchMixed(Strip(str), TRUE),
                  MatchMixed(Strip(str), FALSE), FirstIn(Strip(str), {"/"}))

\* _extract_plate_thickness_str: '1/2"X12"' -> '1/2'
ExtractPlateThicknessStr(dimensions_str) ==
    Strip(SplitX(Unquote(dimensions_str))[1])

\* _extract_plate_width: '1/2"X12"' -> 12.0
ExtractPlateWidth(dimensions_str) ==
    LET parts == SplitX(Unquote(dimensions_str))
    IN  IF Len(parts) < 2 THEN 0 ELSE ParseMixedFraction(Strip(parts[2]))

\* _parse_plate_thickness: thickness or 0.5
ThicknessOrHalf(t) == IF t # 0 THEN t ELSE UnitsPerInch \div 2

ParsePlateThickness(dimensions_str) ==
    ThicknessOrHalf(ParseMixedFraction(ExtractPlateThicknessStr(dimensions_str)))


\* ---------------------------------------------------------------------------
\* Stock catalog (tracker_stock_config as seeded by seed_stock_config)
\* ---------------------------------------------------------------------------
PLATE_SHAPES == {"PL", "PLATE"}

\* shape_map = {"W": "W", "WF": "W", ..., "PL": "PL", "PLATE": "PL"}
shape_map ==
    [c \in {"W", "WF", "HSS", "TS", "HSSR", "RT", "PIPE", "L", "C", "MC", "S",
            "PL", "PLATE"} |->
        CASE c = "WF" -> "W" [] c = "TS" -> "HSS" [] c = "PLATE" -> "PL"
          [] OTHER -> c]

MappedShape(shape) ==
    IF Upper(shape) \in DOMAIN shape_map THEN shape_map[Upper(shape)]
    ELSE Upper(shape)

\* plate sheet rows: w, l in feet, thickness range in eighths of an inch
\* (thickness_min defaults to 0 and thickness_max to 99 in _get_plate_sheets)
PlateSheetRows ==
    << [w |-> 4, l |-> 8, thickness_min |-> 0, thickness_max |-> 4],
       [w |-> 5, l |-> 10, thickness_min |-> 0, thickness_max |-> 4],
       [w |-> 4, l |-> 8, thickness_min |-> 6, thickness_max |-> 8],
       [w |-> 5, l |-> 10, thickness_min |-> 6, thickness_max |-> 8],
       [w |-> 10, l |-> 20, thickness_min |-> 6, thickness_max |-> 8],
       [w |-> 4, l |-> 8, thickness_min |-> 10, thickness_max |-> 16],
       [w |-> 5, l |-> 10, thickness_min |-> 10, thickness_max |-> 16] >>

\* the active rows of tracker_stock_config, by shape_code; is_dicts tells
\* whether available_lengths holds sheet dicts (plate) or feet (linear)
StockConfig ==
    [c \in {"W", "L", "PL"} |->
        CASE c = "W" ->
                [available_lengths |-> <<20, 25, 30, 35, 40, 45, 50, 55, 60>>,
                 is_dicts |-> FALSE, kerf_inches |-> DefaultKerf]
          [] c = "L" ->
                [available_lengths |-> <<20, 40>>,
                 is_dicts |-> FALSE, kerf_inches |-> DefaultKerf]
          [] c = "PL" ->
                [available_lengths |-> PlateSheetRows,
                 is_dicts |-> TRUE, kerf_inches |-> DefaultKerf]]

NoStockCfg == [available_lengths |-> <<>>, is_dicts |-> FALSE, kerf_inches |-> 0]

\* db.query(StockConfig).filter(shape_code == mapped_shape, active).first()
StockCfgFor(mapped_shape) ==
    IF mapped_shape \in DOMAIN StockConfig THEN StockConfig[mapped_shape]
    ELSE NoStockCfg

\* kerf = stock_cfg.kerf_inches if stock_cfg else 0.125
KerfFor(stock_cfg) ==
    IF stock_cfg # NoStockCfg THEN stock_cfg.kerf_inches ELSE DefaultKerf

Times12(feet) == [i \in DOMAIN feet |-> Feet(feet[i])]

\* [l * 12 for l in data.stock_overrides[shape_upper]]: the feet of a
\* request are counted in sixteenths of a foot
OverrideInches(feet) ==
    [i \in DOMAIN feet |->
        (feet[i] * InchesPerFoot * UnitsPerInch) \div OverrideUnitsPerFoot]

NoOverrides == [c \in {} |-> <<>>]

\* the available lengths as they would be with the forced length tested
\* before the overrides
AvailInchesForcedFirst(data, shape, stock_cfg) ==
    LET shape_upper == Upper(shape)
    IN  IF data.stock_length_inches > 0
        THEN <<data.stock_length_inches>>
        ELSE IF shape_upper \in DOMAIN data.stock_overrides
                /\ data.stock_overrides[shape_upper] # <<>>
        THEN SortedAsc(OverrideInches(data.stock_overrides[shape_upper]))
        ELSE IF stock_cfg # NoStockCfg /\ stock_cfg.available_lengths # <<>>
        THEN IF stock_cfg.is_dicts THEN "raise"
             ELSE SortedAsc(Times12(stock_cfg.available_lengths))
        ELSE <<Inch(DefaultStockInches)>>

\* the available stock lengths of a linear group, in eighths; "raise" when
\* the catalog row holds sheet dicts (l * 12 on a dict is a TypeError)
AvailInches(data, shape, stock_cfg) ==
    LET shape_upper == Upper(shape)
    IN  IF shape_upper \in DOMAIN data.stock_overrides
           /\ data.stock_overrides[shape_upper] # <<>>
        THEN SortedAsc(OverrideInches(data.stock_overrides[shape_upper]))
        ELSE IF data.stock_length_inches > 0
        THEN <<data.stock_length_inches>>
        ELSE IF stock_cfg # NoStockCfg /\ stock_cfg.available_lengths # <<>>
        THEN IF stock_cfg.is_dicts THEN "raise"
             ELSE SortedAsc(Times12(stock_cfg.available_lengths))
        ELSE <<Inch(DefaultStockInches)>>

\* ---------------------------------------------------------------------------
\* run_nest: mixed-length 1-D bin packing of one group
\* ---------------------------------------------------------------------------
\* cut_lengths / part_refs: one entry per unit piece, item by item
RECURSIVE ExpandItems(_)
ExpandItems(items) ==
    IF items = <<>> THEN <<>>
    ELSE Repeat(Head(items), Head(items).quantity) \o ExpandItems(Tail(items))

CutLengthsOf(part_refs) == [i \in DOMAIN part_refs |-> part_refs[i].length_inches]

\* the oversized check as it would be with  if cl >= max_stock
OversizedFromLimit(group, part_refs, ci, max_stock) ==
    LET over == SelectSeq(SubSeq(part_refs, ci, Len(part_refs)),
                          LAMBDA p : p.length_inches >= max_stock)
    IN  [j \in DOMAIN over |->
            [type |-> "oversized", shape |-> group.shape,
             dimensions |-> group.dimensions, part_mark |-> over[j].part_mark,
             part_length |-> over[j].length_inches, max_stock |-> max_stock]]

\* warnings of the oversized check, in piece order
RECURSIVE OversizedWarnings(_, _, _, _)
OversizedWarnings(group, part_refs, ci, max_stock) ==
    IF ci > Len(part_refs) THEN <<>>
    ELSE (IF part_refs[ci].length_inches > max_stock
          THEN << [type |-> "oversized", shape |-> group.shape,
                   dimensions |-> group.dimensions,
                   part_mark |-> part_refs[ci].part_mark,
                   part_length |-> part_refs[ci].length_inches,
                   max_stock |-> max_stock] >>
          ELSE <<>>)
         \o OversizedWarnings(group, part_refs, ci + 1, max_stock)

\* insert e = <<orig_idx, length>> behind every entry at least as long
RECURSIVE InsertDesc(_, _)
InsertDesc(s, e) ==
    IF s = <<>> THEN <<e>>
    ELSE IF Head(s)[2] >= e[2] THEN <<Head(s)>> \o InsertDesc(Tail(s), e)
    ELSE <<e>> \o s

\* sorted(enumerate(cut_lengths), key=lambda x: -x[1])   (stable)
RECURSIVE IndexedDesc(_, _)
IndexedDesc(cut_lengths, n) ==
    IF n = 0 THEN <<>>
    ELSE InsertDesc(IndexedDesc(cut_lengths, n - 1), <<n, cut_lengths[n]>>)

\* best-fit scan: index of the bin with the least remaining that still
\* fits, 0 when none; the first of equally good bins wins (nr < best)
RECURSIVE BestBinScan(_, _, _, _, _)
BestBinScan(bins, i, need, best, best_remaining) ==
    IF i > Len(bins) THEN best
    ELSE IF bins[i].remaining >= need
            /\ (best = 0 \/ bins[i].remaining - need < best_remaining)
    THEN BestBinScan(bins, i + 1, need, i, bins[i].remaining - need)
    ELSE BestBinScan(bins, i + 1, need, best, best_remaining)

\* valid = [sl for sl in avail_inches if sl >= length + kerf];
\* stock_len = valid[0] if valid else max(avail_inches)
NewStockLen(avail_inches, length, kerf) ==
    LET valid == SelectSeq(avail_inches, LAMBDA sl : sl >= length + kerf)
    IN  IF valid = <<>> THEN MaxSeq(avail_inches) ELSE valid[1]

\* what the first piece of a new bin takes from the bin
FirstCutCharge(length, kerf) == length + kerf

\* the iteration as it would be with  best_bin = the first bin that fits
PlaceCutFirstFit(bins, e, avail_inches, kerf) ==
    LET fits == {i \in DOMAIN bins : bins[i].remaining >= e[2] + kerf}
    IN  IF fits # {}
        THEN [bins EXCEPT ![CHOOSE i \in fits : \A j \in fits : i <= j] =
                [@ EXCEPT !.cuts = Append(@, e),
                          !.remaining = @ - (e[2] + kerf)]]
        ELSE Append(bins, [stock_length |-> NewStockLen(avail_inches, e[2], kerf),
                           remaining |-> NewStockLen(avail_inches, e[2], kerf)
                                            - FirstCutCharge(e[2], kerf),
                           cuts |-> <<e>>])

\* one iteration of  for orig_idx, length in indexed
PlaceCut(bins, e, avail_inches, kerf) ==
    LET length == e[2]
        best == BestBinScan(bins, 1, length + kerf, 0, 0)
    IN  IF best # 0
        THEN [bins EXCEPT ![best] =
                [@ EXCEPT !.cuts = Append(@, e),
                          !.remaining = @ - (length + kerf)]]
        ELSE LET stock_len == NewStockLen(avail_inches, length, kerf)
             IN  Append(bins, [stock_length |-> stock_len,
                               remaining |-> stock_len - FirstCutCharge(length, kerf),
                               cuts |-> <<e>>])

RECURSIVE PackLinear(_, _, _, _)
PackLinear(bins, indexed, avail_inches, kerf) ==
    IF indexed = <<>> THEN bins
    ELSE PackLinear(PlaceCut(bins, Head(indexed), avail_inches, kerf),
                    Tail(indexed), avail_inches, kerf)

\* the mult branch for one group: result entry and warnings
\* the elements of a set of numbers in increasing order
RECURSIVE SortedSet(_)
SortedSet(S) ==
    IF S = {} THEN <<>>
    ELSE <<CHOOSE x \in S : \A y \in S : x <= y>>
         \o SortedSet(S \ {CHOOSE x \in S : \A y \in S : x <= y})

\* sl_ft = round(b["stock_length"] / 12, 1), in tenths of a foot; Python
\* rounds a tie to the even tenth
RoundTenthFeet(stock_length) ==
    LET per == InchesPerFoot * UnitsPerInch
        q == (stock_length * 10) \div per
        r == (stock_length * 10) % per
    IN  IF 2 * r < per THEN q
        ELSE IF 2 * r > per THEN q + 1
        ELSE IF q % 2 = 0 THEN q ELSE q + 1

\* for sl_ft, qty in sorted(length_counts.items()): buy_list.append(...)
RECURSIVE BuyLines(_, _, _)
BuyLines(group, bins, keys) ==
    IF keys = <<>> THEN <<>>
    ELSE << [shape |-> group.shape, dimensions |-> group.dimensions,
             grade |-> group.grade,
             qty |-> Cardinality({b \in DOMAIN bins :
                        RoundTenthFeet(bins[b].stock_length) = Head(keys)}),
             stock_length_ft |-> Head(keys), is_plate |-> FALSE] >>
         \o BuyLines(group, bins, Tail(keys))

\* what a mult group adds to buy_list and all_results, bins being packed
MultResult(group, part_refs, cut_lengths, warnings, bins) ==
    [kind |-> "ok", warnings |-> warnings,
     buy |-> BuyLines(group, bins,
                      SortedSet({RoundTenthFeet(bins[b].stock_length) :
                                    b \in DOMAIN bins})),
     result |->
        [shape |-> group.shape, dimensions |-> group.dimensions,
         grade |-> group.grade, is_plate |-> FALSE,
         bins |-> bins, part_refs |-> part_refs, cut_lengths |-> cut_lengths]]

NestMultGroup(data, group, stock_cfg, kerf) ==
    LET part_refs == ExpandItems(group.items)
        cut_lengths == CutLengthsOf(part_refs)
        avail_inches == AvailInches(data, group.shape, stock_cfg)
    IN  IF cut_lengths = <<>> THEN [kind |-> "skip"]
        ELSE IF avail_inches = "raise" THEN [kind |-> "raise"]
        ELSE MultResult(group, part_refs, cut_lengths,
                        OversizedWarnings(group, part_refs, 1, MaxSeq(avail_inches)),
                        PackLinear(<<>>, IndexedDesc(cut_lengths, Len(cut_lengths)),
                                   avail_inches, kerf))


\* ---------------------------------------------------------------------------
\* run_nest: 2-D strip packing of one plate group
\* ---------------------------------------------------------------------------
DefaultSheets == << [w |-> 4, l |-> 8], [w |-> 5, l |-> 10] >>

RECURSIVE MatchingSheets(_, _)
MatchingSheets(rows, thickness) ==
    IF rows = <<>> THEN <<>>
    ELSE (IF Head(rows).thickness_min <= thickness
             /\ thickness <= Head(rows).thickness_max
          THEN << [w |-> Head(rows).w, l |-> Head(rows).l] >>
          ELSE <<>>)
         \o MatchingSheets(Tail(rows), thickness)

\* _get_plate_sheets(stock_cfg, thickness)
GetPlateSheets(stock_cfg, thickness) ==
    IF stock_cfg = NoStockCfg \/ stock_cfg.available_lengths = <<>>
    THEN DefaultSheets
    ELSE LET sheets == IF stock_cfg.is_dicts
                       THEN MatchingSheets(stock_cfg.available_lengths, thickness)
                       ELSE <<>>
         IN  IF sheets # <<>> THEN sheets ELSE DefaultSheets

DefaultPlateInches == 12

\* plates.append({"width": w, "length": l, ...}) for one unit piece
PlateDict(item, pw) ==
    [width |-> IF item.width_inches # 0 THEN item.width_inches
               ELSE IF pw # 0 THEN pw ELSE Inch(DefaultPlateInches),
     length |-> IF item.length_inches # 0 THEN item.length_inches
                ELSE Inch(DefaultPlateInches),
     part_dims |-> item.dimensions]

PlateOf(item) == PlateDict(item, ExtractPlateWidth(item.dimensions))

\* insert e = <<orig_idx, plate>> behind every entry of at least its area
RECURSIVE InsertByArea(_, _)
InsertByArea(s, e) ==
    IF s = <<>> THEN <<e>>
    ELSE IF Head(s)[2].width * Head(s)[2].length >= e[2].width * e[2].length
    THEN <<Head(s)>> \o InsertByArea(Tail(s), e)
    ELSE <<e>> \o s

\* sorted(enumerate(plates), key=lambda x: -(width * length))   (stable)
RECURSIVE SortedByArea(_, _)
SortedByArea(plates, n) ==
    IF n = 0 THEN <<>>
    ELSE InsertByArea(SortedByArea(plates, n - 1), <<n, plates[n]>>)

EmptySheet == [strips |-> <<>>, y_used |-> 0]

\* the first strip as it would be without the test  strip["h"] >= ow
FirstStripByLength(strips, ow, ol, kerf) ==
    IF \E i \in DOMAIN strips : strips[i].x_rem >= ol + kerf
    THEN CHOOSE i \in DOMAIN strips :
            /\ strips[i].x_rem >= ol + kerf
            /\ \A j \in 1..(i - 1) : ~(strips[j].x_rem >= ol + kerf)
    ELSE 0

\* first strip of the current sheet that takes the piece, 0 when none
FirstStrip(strips, ow, ol, kerf) ==
    IF \E i \in DOMAIN strips : strips[i].x_rem >= ol + kerf /\ strips[i].h >= ow
    THEN CHOOSE i \in DOMAIN strips :
            /\ strips[i].x_rem >= ol + kerf /\ strips[i].h >= ow
            /\ \A j \in 1..(i - 1) : ~(strips[j].x_rem >= ol + kerf /\ strips[j].h >= ow)
    ELSE 0

\* body of  for ow, ol in orientations  on the current sheet
TryOrientation(cur, orig_idx, ow, ol, sw, sl, kerf) ==
    LET i == FirstStrip(cur.strips, ow, ol, kerf)
    IN  IF ow > sw \/ ol > sl THEN [placed |-> FALSE, cur |-> cur]
        ELSE IF i # 0
        THEN [placed |-> TRUE,
              cur |-> [cur EXCEPT !.strips[i] =
                          [@ EXCEPT !.cuts = Append(@, <<orig_idx, ow, ol>>),
                                    !.x_rem = @ - (ol + kerf)]]]
        ELSE IF cur.y_used + ow + kerf <= sw
        THEN [placed |-> TRUE,
              cur |-> [strips |-> Append(cur.strips,
                                     [h |-> ow, x_rem |-> sl - ol - kerf,
                                      cuts |-> << <<orig_idx, ow, ol>> >>]),
                       y_used |-> cur.y_used + ow + kerf]]
        ELSE [placed |-> FALSE, cur |-> cur]

NewSheetWith(orig_idx, ow, ol, sl, kerf) ==
    [strips |-> << [h |-> ow, x_rem |-> sl - ol - kerf,
                    cuts |-> << <<orig_idx, ow, ol>> >>] >>,
     y_used |-> ow + kerf]

\* the iteration as it would be with  orientations = [(pw, pl_len)]
PlacePlateAsGiven(st, e, sw, sl, kerf) ==
    LET orig_idx == e[1]
        pw == e[2].width
        pl_len == e[2].length
        o1 == TryOrientation(st.cur, orig_idx, pw, pl_len, sw, sl, kerf)
    IN  IF o1.placed THEN [st EXCEPT !.cur = o1.cur]
        ELSE IF pw <= sw /\ pl_len <= sl
        THEN [sheets_used |-> Append(st.sheets_used, st.cur),
              cur |-> NewSheetWith(orig_idx, pw, pl_len, sl, kerf)]
        ELSE [sheets_used |-> Append(st.sheets_used, st.cur),
              cur |-> [strips |-> << [h |-> pw, x_rem |-> 0,
                                      cuts |-> << <<orig_idx, pw, pl_len>> >>] >>,
                       y_used |-> pw]]

\* one iteration of  for orig_idx, pl in sorted_p ; st = [sheets_used, cur]
PlacePlate(st, e, sw, sl, kerf) ==
    LET orig_idx == e[1]
        pw == e[2].width
        pl_len == e[2].length
        o1 == TryOrientation(st.cur, orig_idx, pw, pl_len, sw, sl, kerf)
        o2 == TryOrientation(st.cur, orig_idx, pl_len, pw, sw, sl, kerf)
    IN  IF o1.placed THEN [st EXCEPT !.cur = o1.cur]
        ELSE IF o2.placed THEN [st EXCEPT !.cur = o2.cur]
        ELSE IF pw <= sw /\ pl_len <= sl
        THEN [sheets_used |-> Append(st.sheets_used, st.cur),
              cur |-> NewSheetWith(orig_idx, pw, pl_len, sl, kerf)]
        ELSE IF pl_len <= sw /\ pw <= sl
        THEN [sheets_used |-> Append(st.sheets_used, st.cur),
              cur |-> NewSheetWith(orig_idx, pl_len, pw, sl, kerf)]
        ELSE \* piece too large for any sheet: put on its own
             [sheets_used |-> Append(st.sheets_used, st.cur),
              cur |-> [strips |-> << [h |-> pw, x_rem |-> 0,
                                      cuts |-> << <<orig_idx, pw, pl_len>> >>] >>,
                       y_used |-> pw]]

RECURSIVE PackPlates(_, _, _, _, _)
PackPlates(st, sorted_p, sw, sl, kerf) ==
    IF sorted_p = <<>> THEN st
    ELSE PackPlates(PlacePlate(st, Head(sorted_p), sw, sl, kerf),
                    Tail(sorted_p), sw, sl, kerf)

SheetHasCuts(sh) ==
    sh.strips # <<>> /\ \E i \in DOMAIN sh.strips : sh.strips[i].cuts # <<>>

\* sheets_used.append(cur); sheets_used = [s for s in sheets_used if ...]
UsedSheets(st) == SelectSeq(Append(st.sheets_used, st.cur), SheetHasCuts)

\* the sheets one candidate sheet size needs (empty sheets filtered out)
SheetsUsedFor(plates, sheet, kerf) ==
    UsedSheets(PackPlates([sheets_used |-> <<>>, cur |-> EmptySheet],
                          SortedByArea(plates, Len(plates)),
                          Feet(sheet.w), Feet(sheet.l), kerf))

RECURSIVE PlateArea(_)
PlateArea(plates) ==
    IF plates = <<>> THEN 0
    ELSE Head(plates).width * Head(plates).length + PlateArea(Tail(plates))

\* util = total_piece_area / total_sheet_area * 100, kept as a fraction
UtilOf(plates, sheet, sheets_used) ==
    [num |-> PlateArea(plates),
     den |-> Len(sheets_used) * Feet(sheet.w) * Feet(sheet.l)]

\* u > v on fractions (0 when the denominator is 0); equal numerators are
\* compared on the denominators, which keeps the products in range
UtilGreater(u, v) ==
    LET un == IF u.den > 0 THEN u.num ELSE 0
        vn == IF v.den > 0 THEN v.num ELSE 0
    IN  IF un = 0 THEN FALSE
        ELSE IF vn = 0 THEN TRUE
        ELSE IF un = vn THEN u.den < v.den
        ELSE un * v.den > vn * u.den

NoBest == [sheet |-> [w |-> 0, l |-> 0], sheets_used |-> <<>>,
           util |-> [num |-> 0, den |-> 0]]

\* {"sheet": sheet, "sheets_used": sheets_used, "util": util}
Candidate(sheet, plates, sheets_used) ==
    [sheet |-> sheet, sheets_used |-> sheets_used,
     util |-> UtilOf(plates, sheet, sheets_used)]

\* the choice as it would be with  util >= best["util"]
BetterOrEqualOf(best, cand) ==
    IF best = NoBest \/ ~UtilGreater(best.util, cand.util) THEN cand ELSE best

\* if best is None or util > best["util"]: best = {...}
BetterOf(best, cand) ==
    IF best = NoBest \/ UtilGreater(cand.util, best.util) THEN cand ELSE best

\* for sheet in available_sheets: ...
RECURSIVE BestSheet(_, _, _, _)
BestSheet(best, sheets, plates, kerf) ==
    IF sheets = <<>> THEN best
    ELSE BestSheet(BetterOf(best,
                            Candidate(Head(sheets), plates,
                                      SheetsUsedFor(plates, Head(sheets), kerf))),
                   Tail(sheets), plates, kerf)

RECURSIVE StripCuts(_)
StripCuts(strips) ==
    IF strips = <<>> THEN <<>> ELSE Head(strips).cuts \o StripCuts(Tail(strips))

RECURSIVE CutAreas(_)
CutAreas(all_cuts) ==
    IF all_cuts = <<>> THEN 0
    ELSE Head(all_cuts)[2] * Head(all_cuts)[3] + CutAreas(Tail(all_cuts))

\* round(u / m * 100, 1) in tenths of a percent; the quotient is taken digit
\* by digit, which keeps every product in range
RoundedPercent(u, m) ==
    LET d1 == ((u % m) * 10) \div m
        r1 == ((u % m) * 10) % m
        d2 == (r1 * 10) \div m
        r2 == (r1 * 10) % m
        d3 == (r2 * 10) \div m
        r3 == (r2 * 10) % m
        t == (u \div m) * 1000 + d1 * 100 + d2 * 10 + d3
    IN  IF 2 * r3 > m THEN t + 1
        ELSE IF 2 * r3 < m THEN t
        ELSE IF t % 2 = 0 THEN t ELSE t + 1

\* "yield_pct": round(best["util"], 1), in tenths of a percent
PlateYield(util) ==
    IF util.den > 0 THEN RoundedPercent(util.num, util.den) ELSE 0

\* bins_for_result.append({...}) for one sheet
SheetBin(sh, sw_in, sl_in) ==
    LET all_cuts == StripCuts(sh.strips)
    IN  [stock_length |-> sl_in, stock_width |-> sw_in,
         remaining |-> (sw_in * sl_in) - CutAreas(all_cuts),
         cuts |-> [i \in DOMAIN all_cuts |-> <<all_cuts[i][1], all_cuts[i][3]>>]]

\* the plate branch for one group
PlatesOf(part_refs) == [i \in DOMAIN part_refs |-> PlateOf(part_refs[i])]

\* if not plates / if not best: continue ; all_results.append({...})
PlateResult(group, part_refs, plates, best) ==
    IF plates = <<>> \/ best = NoBest THEN [kind |-> "skip"]
    ELSE [kind |-> "ok", warnings |-> <<>>,
          buy |-> << [shape |-> group.shape, dimensions |-> group.dimensions,
                      grade |-> group.grade, qty |-> Len(best.sheets_used),
                      stock_length_ft |-> best.sheet.l * 10,
                      stock_width_ft |-> best.sheet.w * 10, is_plate |-> TRUE] >>,
          result |->
            [shape |-> group.shape, dimensions |-> group.dimensions,
             grade |-> group.grade, is_plate |-> TRUE,
             bins |-> [i \in DOMAIN best.sheets_used |->
                         SheetBin(best.sheets_used[i],
                                  Feet(best.sheet.w), Feet(best.sheet.l))],
             part_refs |-> part_refs,
             cut_lengths |-> [i \in DOMAIN plates |-> plates[i].length],
             yield_pct |-> PlateYield(best.util)]]

NestPlateGroup(group, stock_cfg, kerf) ==
    PlateResult(group, ExpandItems(group.items),
                PlatesOf(ExpandItems(group.items)),
                BestSheet(NoBest,
                          GetPlateSheets(stock_cfg,
                                         ParsePlateThickness(group.dimensions)),
                          PlatesOf(ExpandItems(group.items)), kerf))

\* ---------------------------------------------------------------------------
\* run_nest: grouping and the loop over the groups
\* ---------------------------------------------------------------------------
\* the key as it would be if every part had the same one
OneKey(p) == <<"", <<>>, "">>

\* key = f"{p['shape']}|{thickness_str}|{p['grade']}" for a plate,
\* f"{p['shape']}|{p['dimensions']}|{p['grade']}" otherwise
GroupKey(p) ==
    IF Upper(p.shape) \in PLATE_SHAPES
    THEN <<p.shape, ExtractPlateThicknessStr(p.dimensions), p.grade>>
    ELSE <<p.shape, p.dimensions, p.grade>>

\* the entry as it is appended to its group (a plate part without a width
\* takes the width parsed from its dimensions)
WithPieceWidth(p, piece_w) ==
    IF Upper(p.shape) \in PLATE_SHAPES /\ piece_w # 0 /\ p.width_inches = 0
    THEN [p EXCEPT !.width_inches = piece_w]
    ELSE p

GroupedItem(p) == WithPieceWidth(p, ExtractPlateWidth(p.dimensions))

KeyIndex(groups, key) ==
    IF \E i \in DOMAIN groups : groups[i].key = key
    THEN CHOOSE i \in DOMAIN groups : groups[i].key = key
    ELSE 0

\* groups[key]["items"].append(p), the group created when key is new; item
\* is p with its width filled in, which changes neither shape nor grade
AddToGroup(groups, item, key, i) ==
    IF i # 0
    THEN [groups EXCEPT ![i].items = Append(@, item)]
    ELSE Append(groups,
                [key |-> key, shape |-> item.shape, dimensions |-> key[2],
                 grade |-> item.grade, items |-> <<item>>,
                 is_plate |-> Upper(item.shape) \in PLATE_SHAPES])

\* groups: insertion-ordered dict, as a sequence of groups with their key
RECURSIVE GroupParts(_, _)
GroupParts(groups, parts_to_nest) ==
    IF parts_to_nest = <<>> THEN groups
    ELSE GroupParts(AddToGroup(groups, GroupedItem(Head(parts_to_nest)),
                               GroupKey(Head(parts_to_nest)),
                               KeyIndex(groups, GroupKey(Head(parts_to_nest)))),
                    Tail(parts_to_nest))

NestGroupWith(data, group, stock_cfg) ==
    IF group.is_plate /\ data.nest_mode # "mult"
    THEN NestPlateGroup(group, stock_cfg, KerfFor(stock_cfg))
    ELSE NestMultGroup(data, group, stock_cfg, KerfFor(stock_cfg))

NestGroup(data, group) ==
    NestGroupWith(data, group, StockCfgFor(MappedShape(group.shape)))

\* the outcome g of one group: an exception, a continue, or a result
Accumulate(acc, g) ==
    IF g.kind = "raise" THEN [acc EXCEPT !.kind = "raise"]
    ELSE IF g.kind = "skip" THEN acc
    ELSE [acc EXCEPT !.all_results = Append(@, g.result),
                     !.buy_list = @ \o g.buy,
                     !.warnings = @ \o g.warnings]

\* for key, group in groups.items(): acc = [kind, all_results, warnings]
RECURSIVE NestGroups(_, _, _)
NestGroups(acc, data, groups) ==
    IF groups = <<>> \/ acc.kind = "raise" THEN acc
    ELSE NestGroups(Accumulate(acc, NestGroup(data, Head(groups))),
                    data, Tail(groups))

\* the pure part of run_nest: parts_to_nest -> all_results, buy_list,
\* warnings; stock_length_ft of a buy_list line is in tenths of a foot
ComputeNest(data, parts_to_nest) ==
    NestGroups([kind |-> "ok", all_results |-> <<>>, buy_list |-> <<>>,
                warnings |-> <<>>],
               data, GroupParts(<<>>, parts_to_nest))


\* ---------------------------------------------------------------------------
\* run_nest: the rows of a run (NestRun, NestRunItem, NestRunDrop)
\* ---------------------------------------------------------------------------
None == "None"

\* A row's id stands for its autoincrement primary key: <<nest_run_id, k>>
\* is the k-th row of its table that the run's transaction inserted.

\* NestRunItem(...) for the cuts of one bin
BinItems(res, bin_idx, b) ==
    [cut_idx \in DOMAIN b.cuts |->
        LET p_ref == res.part_refs[b.cuts[cut_idx][1]]
        IN  [part_id |-> p_ref.id,
             stock_index |-> bin_idx - 1,
             cut_position |-> cut_idx - 1,
             cut_length_inches |-> b.cuts[cut_idx][2],
             shape |-> p_ref.shape, dimensions |-> p_ref.dimensions,
             grade |-> p_ref.grade, part_mark |-> p_ref.part_mark,
             assembly_mark |-> p_ref.assembly_mark, quantity |-> 1]]

\* the 6 of  if drop_inches > 6  in the unit of b["remaining"]: eighths of
\* an inch for a linear bin, 64ths of a square inch for a sheet
DropThreshold(res) ==
    IF res.is_plate THEN DropThresholdInches * UnitsPerInch * UnitsPerInch
    ELSE Inch(DropThresholdInches)

\* the test as it would be with  if drop_inches >= 6
TrackableFromThreshold(res, b) == b.remaining >= DropThreshold(res)

\* drop_inches = b["remaining"]; if drop_inches > 6
Trackable(res, b) == b.remaining > DropThreshold(res)

\* NestRunDrop(...) for one bin: only when drop_inches > 6
BinDrops(res, bin_idx, b) ==
    IF Trackable(res, b)
    THEN << [stock_index |-> bin_idx - 1,
             shape |-> res.shape, dimensions |-> res.dimensions,
             grade |-> res.grade,
             stock_length_inches |-> b.stock_length,
             drop_length_inches |-> b.remaining,
             disposition |-> None, disposition_date |-> None,
             disposition_by |-> None, inventory_location |-> None] >>
    ELSE <<>>

RECURSIVE ResItems(_, _)
ResItems(res, bin_idx) ==
    IF bin_idx > Len(res.bins) THEN <<>>
    ELSE BinItems(res, bin_idx, res.bins[bin_idx]) \o ResItems(res, bin_idx + 1)

RECURSIVE ResDrops(_, _)
ResDrops(res, bin_idx) ==
    IF bin_idx > Len(res.bins) THEN <<>>
    ELSE BinDrops(res, bin_idx, res.bins[bin_idx]) \o ResDrops(res, bin_idx + 1)

\* for res in all_results: ... db.add(item)
RECURSIVE AllItems(_)
AllItems(all_results) ==
    IF all_results = <<>> THEN <<>>
    ELSE ResItems(Head(all_results), 1) \o AllItems(Tail(all_results))

\* for res in all_results: ... db.add(drop)
RECURSIVE AllDrops(_)
AllDrops(all_results) ==
    IF all_results = <<>> THEN <<>>
    ELSE ResDrops(Head(all_results), 1) \o AllDrops(Tail(all_results))

WithIds(rows, run_id) ==
    {[id |-> <<run_id, k>>, nest_run_id |-> run_id] @@ rows[k] : k \in DOMAIN rows}

RECURSIVE CountBins(_)
CountBins(all_results) ==
    IF all_results = <<>> THEN 0
    ELSE Len(Head(all_results).bins) + CountBins(Tail(all_results))

\* what a bin adds to total_material: b["stock_length"] of a linear bin,
\* sw_in * sl_in of a sheet (both as 64ths, the unit of the areas)
BinMaterial(res, b) ==
    IF res.is_plate THEN b.stock_width * b.stock_length
    ELSE b.stock_length * UnitsPerInch

\* what a bin adds to total_used: b["stock_length"] - b["remaining"] of a
\* linear bin, the area of its pieces for a sheet
BinUsed(res, b) ==
    IF res.is_plate THEN b.stock_width * b.stock_length - b.remaining
    ELSE (b.stock_length - b.remaining) * UnitsPerInch

RECURSIVE TotalMaterial(_)
TotalMaterial(all_results) ==
    IF all_results = <<>> THEN 0
    ELSE SumSeq([b \in DOMAIN Head(all_results).bins |->
                    BinMaterial(Head(all_results), Head(all_results).bins[b])])
         + TotalMaterial(Tail(all_results))

RECURSIVE TotalUsed(_)
TotalUsed(all_results) ==
    IF all_results = <<>> THEN 0
    ELSE SumSeq([b \in DOMAIN Head(all_results).bins |->
                    BinUsed(Head(all_results), Head(all_results).bins[b])])
         + TotalUsed(Tail(all_results))

\* yield_pct = round(total_used / total_material * 100, 1) if total_material > 0 else 0
YieldPct(total_used, total_material) ==
    IF total_material > 0 THEN RoundedPercent(total_used, total_material) ELSE 0

\* nest_run = NestRun(...)
RunHeader(run_id, data, all_results) ==
    [id |-> run_id, operator |-> data.operator, status |-> "complete",
     yield_percentage |-> YieldPct(TotalUsed(all_results), TotalMaterial(all_results)),
     total_stock_used |-> CountBins(all_results),
     total_parts_cut |-> Len(data.part_ids)]


\* ---------------------------------------------------------------------------
\* nesting.py: nest_linear
\* ---------------------------------------------------------------------------
\* DEFAULT_STOCK_LENGTHS (feet), for the shape categories of the model
DEFAULT_STOCK_LENGTHS ==
    [c \in {"W", "S", "HSS", "L", "C", "MC", "PIPE", "PL"} |->
        CASE c = "W" -> <<20, 25, 30, 35, 40, 45, 50, 55, 60>>
          [] c = "S" -> <<20, 25, 30, 35, 40>>
          [] c = "HSS" -> <<20, 24, 40, 48>>
          [] c = "PIPE" -> <<21, 42>>
          [] c = "PL" -> <<>>
          [] OTHER -> <<20, 25, 30, 40>>]

\* get_shape_category(shape)
get_shape_category(shape) ==
    LET u == Upper(shape)
    IN  CASE u \in {"HSS", "HSSR", "TS"} -> "HSS"
          [] u \in {"FB", "FLAT"} -> "FB"
          [] u \in {"ROD", "RD"} -> "ROD"
          [] OTHER -> u

\* expanded: one unit CutPiece per unit of quantity; uid is the identity of
\* the Python object (its position in the expanded list)
RECURSIVE ExpandPieces(_, _)
ExpandPieces(pieces, done) ==
    IF pieces = <<>> THEN <<>>
    ELSE LET p == Head(pieces)
             n == IF p.quantity > 0 THEN p.quantity ELSE 0
         IN  [i \in 1..n |-> [p EXCEPT !.quantity = 1] @@ [uid |-> done + i]]
             \o ExpandPieces(Tail(pieces), done + n)

\* groups[key].append(p), key = f"{shape}|{dimensions}|{grade}"
RECURSIVE GroupPieces(_, _)
GroupPieces(groups, expanded) ==
    IF expanded = <<>> THEN groups
    ELSE LET p == Head(expanded)
             key == <<p.shape, p.dimensions, p.grade>>
             i == KeyIndex(groups, key)
         IN  GroupPieces(
                IF i # 0 THEN [groups EXCEPT ![i].pieces = Append(@, p)]
                ELSE Append(groups, [key |-> key, pieces |-> <<p>>]),
                Tail(expanded))

\* insert p behind every piece at least as long
RECURSIVE InsertPieceDesc(_, _)
InsertPieceDesc(s, p) ==
    IF s = <<>> THEN <<p>>
    ELSE IF Head(s).length_inches >= p.length_inches
    THEN <<Head(s)>> \o InsertPieceDesc(Tail(s), p)
    ELSE <<p>> \o s

\* group_pieces.sort(key=lambda p: p.length_inches, reverse=True)   (stable)
RECURSIVE SortPiecesDesc(_)
SortPiecesDesc(s) ==
    IF s = <<>> THEN <<>>
    ELSE InsertPieceDesc(SortPiecesDesc(SubSeq(s, 1, Len(s) - 1)), s[Len(s)])

\* stock_lengths.get(category, stock_lengths.get(shape, [20, 40])), in eighths
AvailableInches(stock_lengths, category, shape) ==
    Times12(IF category \in DOMAIN stock_lengths THEN stock_lengths[category]
            ELSE IF shape \in DOMAIN stock_lengths THEN stock_lengths[shape]
            ELSE <<20, 40>>)

StockBar(stock_length_inches, shape, dimensions, grade, from_inventory, inventory_id) ==
    [stock_length_inches |-> stock_length_inches, shape |-> shape,
     dimensions |-> dimensions, grade |-> grade, cuts |-> <<>>,
     remaining_inches |-> stock_length_inches,
     from_inventory |-> from_inventory, inventory_id |-> inventory_id]

\* the from_inventory bars as they would be with one bar per inventory item
RECURSIVE InvBarsPerItem(_, _, _, _)
InvBarsPerItem(inventory, shape, dimensions, grade) ==
    IF inventory = <<>> THEN <<>>
    ELSE LET inv_item == Head(inventory)
         IN  (IF /\ Upper(inv_item.shape) = Upper(shape)
                 /\ UpperSeq(inv_item.dimensions) = UpperSeq(dimensions)
                 /\ Upper(inv_item.grade) = Upper(grade)
                 /\ inv_item.quantity > 0
              THEN << StockBar(inv_item.length_inches, shape, dimensions,
                               grade, TRUE, inv_item.id) >>
              ELSE <<>>)
             \o InvBarsPerItem(Tail(inventory), shape, dimensions, grade)

\* the from_inventory bars of one group
RECURSIVE InvBars(_, _, _, _)
InvBars(inventory, shape, dimensions, grade) ==
    IF inventory = <<>> THEN <<>>
    ELSE LET inv_item == Head(inventory)
         IN  (IF /\ Upper(inv_item.shape) = Upper(shape)
                 /\ UpperSeq(inv_item.dimensions) = UpperSeq(dimensions)
                 /\ Upper(inv_item.grade) = Upper(grade)
                 /\ inv_item.quantity > 0
              THEN Repeat(StockBar(inv_item.length_inches, shape, dimensions,
                                   grade, TRUE, inv_item.id),
                          inv_item.quantity)
              ELSE <<>>)
             \o InvBars(Tail(inventory), shape, dimensions, grade)

SpaceNeeded(bar, piece, kerf) ==
    piece.length_inches + (IF bar.cuts # <<>> THEN kerf ELSE 0)

\* best fit over the open bars: index of the bar, 0 when none fits
RECURSIVE BestBarScan(_, _, _, _, _, _)
BestBarScan(bars, i, piece, kerf, best, best_remaining) ==
    IF i > Len(bars) THEN best
    ELSE LET new_remaining == bars[i].remaining_inches - SpaceNeeded(bars[i], piece, kerf)
         IN  IF new_remaining >= 0 /\ (best = 0 \/ new_remaining < best_remaining)
             THEN BestBarScan(bars, i + 1, piece, kerf, i, new_remaining)
             ELSE BestBarScan(bars, i + 1, piece, kerf, best, best_remaining)

\* the iteration as it would be without  all_unplaced.append(piece)
PlacePieceOrForget(st, piece, available_inches, key, kerf) ==
    LET best == BestBarScan(st.bars, 1, piece, kerf, 0, 0)
        fits == SelectSeq(SortedAsc(available_inches),
                          LAMBDA stock_len : stock_len >= piece.length_inches)
    IN  IF best # 0
        THEN [st EXCEPT !.bars[best] =
                [@ EXCEPT !.remaining_inches = @ - SpaceNeeded(st.bars[best], piece, kerf),
                          !.cuts = Append(@, piece)]]
        ELSE IF fits # <<>>
        THEN [st EXCEPT !.bars = Append(@,
                [StockBar(fits[1], key[1], key[2], key[3], FALSE, 0)
                    EXCEPT !.remaining_inches = @ - piece.length_inches,
                           !.cuts = <<piece>>])]
        ELSE st

\* one iteration of  for piece in group_pieces ; st = [bars, unplaced]
PlacePiece(st, piece, available_inches, key, kerf) ==
    LET best == BestBarScan(st.bars, 1, piece, kerf, 0, 0)
        fits == SelectSeq(SortedAsc(available_inches),
                          LAMBDA stock_len : stock_len >= piece.length_inches)
    IN  IF best # 0
        THEN [st EXCEPT !.bars[best] =
                [@ EXCEPT !.remaining_inches = @ - SpaceNeeded(st.bars[best], piece, kerf),
                          !.cuts = Append(@, piece)]]
        ELSE IF fits # <<>>
        THEN [st EXCEPT !.bars = Append(@,
                [StockBar(fits[1], key[1], key[2], key[3], FALSE, 0)
                    EXCEPT !.remaining_inches = @ - piece.length_inches,
                           !.cuts = <<piece>>])]
        ELSE [st EXCEPT !.unplaced = Append(@, piece)]

RECURSIVE PlacePieces(_, _, _, _, _)
PlacePieces(st, group_pieces, available_inches, key, kerf) ==
    IF group_pieces = <<>> THEN st
    ELSE PlacePieces(PlacePiece(st, Head(group_pieces), available_inches, key, kerf),
                     Tail(group_pieces), available_inches, key, kerf)

\* the body of  for key, group_pieces in groups.items()
NestLinearGroup(group, stock_lengths, inventory, kerf) ==
    LET shape == group.key[1]
        category == get_shape_category(shape)
        available_inches == AvailableInches(stock_lengths, category, shape)
    IN  IF category = "PL" THEN [bars |-> <<>>, unplaced |-> <<>>]
        ELSE IF available_inches = <<>>
        THEN [bars |-> <<>>, unplaced |-> SortPiecesDesc(group.pieces)]
        ELSE PlacePieces([bars |-> InvBars(inventory, shape, group.key[2], group.key[3]),
                          unplaced |-> <<>>],
                         SortPiecesDesc(group.pieces), available_inches,
                         group.key, kerf)

RECURSIVE NestLinearGroups(_, _, _, _, _)
NestLinearGroups(acc, groups, stock_lengths, inventory, kerf) ==
    IF groups = <<>> THEN acc
    ELSE LET g == NestLinearGroup(Head(groups), stock_lengths, inventory, kerf)
         IN  NestLinearGroups([bars |-> acc.bars \o g.bars,
                               unplaced |-> acc.unplaced \o g.unplaced],
                              Tail(groups), stock_lengths, inventory, kerf)

\* purchase_list[pkey]["quantity"] += 1 for a bar that is not from
\* inventory, the entry made when pkey is new; stock_length_ft is
\* stock_length_inches / 12, kept in 96ths of a foot
AddPurchase(lines, bar, i) ==
    IF bar.from_inventory THEN lines
    ELSE IF i # 0 THEN [lines EXCEPT ![i].quantity = @ + 1]
    ELSE Append(lines,
                [key |-> <<bar.shape, bar.dimensions, bar.grade,
                           bar.stock_length_inches>>,
                 shape |-> bar.shape, dimensions |-> bar.dimensions,
                 grade |-> bar.grade, stock_length_ft |-> bar.stock_length_inches,
                 quantity |-> 1])

\* for bar in all_bars: purchase_list as an insertion-ordered dict
RECURSIVE PurchaseList(_, _)
PurchaseList(lines, all_bars) ==
    IF all_bars = <<>> THEN lines
    ELSE PurchaseList(
            AddPurchase(lines, Head(all_bars),
                        KeyIndex(lines, <<Head(all_bars).shape, Head(all_bars).dimensions,
                                          Head(all_bars).grade,
                                          Head(all_bars).stock_length_inches>>)),
            Tail(all_bars))

\* NestResult(bars=all_bars, unplaced=all_unplaced, summary=summary)
NestResult(res) ==
    [bars |-> res.bars, unplaced |-> res.unplaced,
     summary |->
        [total_bars |-> Len(res.bars),
         from_inventory |->
            Cardinality({b \in DOMAIN res.bars : res.bars[b].from_inventory}),
         to_purchase |->
            Cardinality({b \in DOMAIN res.bars : ~res.bars[b].from_inventory}),
         unplaced_pieces |-> Len(res.unplaced),
         purchase_list |-> PurchaseList(<<>>, res.bars)]]

\* nest_linear(pieces, stock_lengths, inventory, kerf) -> NestResult
nest_linear(pieces, stock_lengths, inventory, kerf) ==
    NestResult(NestLinearGroups([bars |-> <<>>, unplaced |-> <<>>],
                                GroupPieces(<<>>, ExpandPieces(pieces, 0)),
                                stock_lengths, inventory, kerf))


\* ---------------------------------------------------------------------------
\* State
\* ---------------------------------------------------------------------------
VARIABLES
    parts,              \* tracker_parts joined with the part's assembly
    nest_runs,          \* tracker_nest_runs        (committed rows)
    nest_run_items,     \* tracker_nest_run_items   (committed rows)
    nest_run_drops,     \* tracker_nest_run_drops   (committed rows)
    material_inventory, \* tracker_material_inventory (committed rows)
    rfqs,               \* tracker_rfqs_v2          (committed rows)
    next_run_id,        \* primary-key sequence of tracker_nest_runs
    next_inv_id,        \* primary-key sequence of tracker_material_inventory
    pc,                 \* per request slot: where its run_nest call stands
    data,               \* per request slot: the NestRequest
    idx,                \* per request slot: position in data.part_ids
    parts_to_nest,      \* per request slot: the validated parts so far
    session,            \* per request slot: rows flushed or added, not committed
    response,           \* per request slot: what the call returned
    reply               \* what the last disposition_drop call returned

tables == <<nest_runs, nest_run_items, nest_run_drops, material_inventory, rfqs>>
locals == <<pc, data, idx, parts_to_nest, session, response>>
seqs == <<next_run_id, next_inv_id>>
vars == <<parts, nest_runs, nest_run_items, nest_run_drops, material_inventory,
          rfqs, next_run_id, next_inv_id, pc, data, idx, parts_to_nest, session,
          response, reply>>

Workers == {"w1", "w2"}
PartIds == 1..NumParts

W8X10 == <<"W", "8", "X", "1", "0">>
PL12 == <<"1", "/", "2", "\"", "X", "1", "2", "\"">>
PL40 == <<"1", "/", "2", "x", "4", "0">>

Mark(i) == <<"p1", "p2", "p3", "p4">>[i]

PartRow(shape, dimensions, grade, length_inches, quantity, assembly_quantity) ==
    [shape |-> shape, dimensions |-> dimensions, grade |-> grade,
     length_inches |-> length_inches, width_inches |-> 0,
     quantity |-> quantity, assembly_mark |-> "B1",
     assembly_quantity |-> assembly_quantity, is_hardware |-> FALSE]

LinearRow(length_inches, quantity) ==
    PartRow("W", W8X10, "A992", length_inches, quantity, 1)

PlateRow(dimensions, assembly_quantity) ==
    PartRow("PL", dimensions, "A36", Inch(40), 1, assembly_quantity)

\* the parts tables in which part 1 is any of the rows and the parts after
\* it are all the same one of the rows
PartTables(rows) ==
    {[i \in PartIds |-> [part_mark |-> Mark(i)] @@ (IF i = 1 THEN r ELSE c)] :
        r \in rows, c \in rows}

NoData ==
    [part_ids |-> <<>>, stock_length_inches |-> 0, stock_overrides |-> NoOverrides,
     operator |-> "", nest_mode |-> "mult"]
NoSession == [runs |-> {}, items |-> {}, drops |-> {}]
NoResponse == [status |-> 0]
NoReply == [status |-> 0]

InitLocals ==
    /\ pc = [w \in Workers |-> "idle"]
    /\ data = [w \in Workers |-> NoData]
    /\ idx = [w \in Workers |-> 0]
    /\ parts_to_nest = [w \in Workers |-> <<>>]
    /\ session = [w \in Workers |-> NoSession]
    /\ response = [w \in Workers |-> NoResponse]

InitTables ==
    /\ nest_runs = {}
    /\ nest_run_items = {}
    /\ nest_run_drops = {}
    /\ material_inventory = {}
    /\ rfqs = {}
    /\ next_run_id = 1
    /\ next_inv_id = 1
    /\ reply = NoReply

\* ---------------------------------------------------------------------------
\* run_nest, one request per slot w
\* ---------------------------------------------------------------------------
\* the request arrives; the project exists
Begin(w, d) ==
    /\ pc[w] = "idle"
    /\ next_run_id <= MaxRuns
    /\ pc' = [pc EXCEPT ![w] = "validate"]
    /\ data' = [data EXCEPT ![w] = d]
    /\ idx' = [idx EXCEPT ![w] = 1]
    /\ parts_to_nest' = [parts_to_nest EXCEPT ![w] = <<>>]
    /\ UNCHANGED <<parts, tables, next_run_id, next_inv_id, reply, session, response>>

\* the lookup as it would be if it never found a row
NeverNested(items, pid) == FALSE

\* db.query(NestRunItem).filter(NestRunItem.part_id == pid).first()
AlreadyNested(items, pid) == \E it \in items : it.part_id = pid

\* parts_to_nest.append({...})
PartEntry(pid, part) ==
    [id |-> pid, part_mark |-> part.part_mark,
     assembly_mark |-> part.assembly_mark,
     shape |-> part.shape, dimensions |-> part.dimensions, grade |-> part.grade,
     length_inches |-> part.length_inches, width_inches |-> part.width_inches,
     quantity |-> part.quantity * part.assembly_quantity]

\* the loop as it would be if a locked part were skipped like a missing one
SkipLockedPart(items, pid) ==
    IF pid \notin DOMAIN parts \/ AlreadyNested(items, pid) THEN "continue"
    ELSE "append"

\* what the validation loop does with one part id, given the committed items
CheckPart(items, pid) ==
    IF pid \notin DOMAIN parts THEN "continue"
    ELSE IF AlreadyNested(items, pid) THEN "locked"
    ELSE "append"

\* one iteration of  for pid in data.part_ids
ValidatePart(w) ==
    /\ pc[w] = "validate"
    /\ idx[w] <= Len(data[w].part_ids)
    /\ LET pid == data[w].part_ids[idx[w]]
           check == CheckPart(nest_run_items, pid)
       IN  IF check = "locked"
           THEN /\ pc' = [pc EXCEPT ![w] = "done"]
                /\ response' = [response EXCEPT ![w] =
                                   [status |-> 400, detail |-> "locked", part_id |-> pid]]
                /\ UNCHANGED <<idx, parts_to_nest>>
           ELSE /\ idx' = [idx EXCEPT ![w] = @ + 1]
                /\ parts_to_nest' = [parts_to_nest EXCEPT ![w] =
                        IF check = "append" THEN Append(@, PartEntry(pid, parts[pid]))
                        ELSE @]
                /\ UNCHANGED <<pc, response>>
    /\ UNCHANGED <<parts, tables, next_run_id, next_inv_id, reply, data, session>>

\* the rows the transaction holds after db.flush() and the db.add() loop
StagedRows(run_id, d, all_results) ==
    [runs |-> {RunHeader(run_id, d, all_results)},
     items |-> WithIds(AllItems(all_results), run_id),
     drops |-> WithIds(AllDrops(all_results), run_id)]

\* after the loop: "No valid parts to nest", or the nesting computation, the
\* flush of the NestRun header and the db.add() of every item and drop
StageNest(w, nest) ==
    IF nest.kind = "raise"
    THEN \* except Exception: db.rollback(); 500
         /\ pc' = [pc EXCEPT ![w] = "done"]
         /\ response' = [response EXCEPT ![w] = [status |-> 500]]
         /\ UNCHANGED <<session, next_run_id>>
    ELSE /\ pc' = [pc EXCEPT ![w] = "commit"]
         /\ session' = [session EXCEPT ![w] =
                StagedRows(next_run_id, data[w], nest.all_results)]
         /\ next_run_id' = next_run_id + 1
         /\ response' = [response EXCEPT ![w] =
                [status |-> 0, nest_run_id |-> next_run_id,
                 warnings |-> nest.warnings, buy_list |-> nest.buy_list,
                 all_results |-> nest.all_results]]

\* the test as it would be if it were missing
NeverEmpty(selection) == FALSE

\* if not parts_to_nest: raise HTTPException(400, "No valid parts to nest")
NoValidParts(selection) == selection = <<>>

Stage(w) ==
    /\ pc[w] = "validate"
    /\ idx[w] > Len(data[w].part_ids)
    /\ IF NoValidParts(parts_to_nest[w])
       THEN /\ pc' = [pc EXCEPT ![w] = "done"]
            /\ response' = [response EXCEPT ![w] =
                               [status |-> 400, detail |-> "no valid parts"]]
            /\ UNCHANGED <<session, next_run_id>>
       ELSE StageNest(w, ComputeNest(data[w], parts_to_nest[w]))
    /\ UNCHANGED <<parts, tables, next_inv_id, reply, data, idx, parts_to_nest>>

\* the commit as it would be if the drops were written after it
CommitWithoutDrops(sess) == [sess EXCEPT !.drops = {}]

\* what db.commit() makes visible of the session's rows
CommittedRows(sess) == sess

\* db.commit()
Commit(w) ==
    /\ pc[w] = "commit"
    /\ nest_runs' = nest_runs \cup CommittedRows(session[w]).runs
    /\ nest_run_items' = nest_run_items \cup CommittedRows(session[w]).items
    /\ nest_run_drops' = nest_run_drops \cup CommittedRows(session[w]).drops
    /\ session' = [session EXCEPT ![w] = NoSession]
    /\ response' = [response EXCEPT ![w] = [@ EXCEPT !.status = 200]]
    /\ pc' = [pc EXCEPT ![w] = "done"]
    /\ UNCHANGED <<parts, material_inventory, rfqs, next_run_id, next_inv_id, reply,
                   data, idx, parts_to_nest>>

\* an exception between the flush and the end of the commit:
\* except Exception: db.rollback(); raise HTTPException(500)
Fail(w) ==
    /\ pc[w] = "commit"
    /\ session' = [session EXCEPT ![w] = NoSession]
    /\ response' = [response EXCEPT ![w] = [status |-> 500]]
    /\ pc' = [pc EXCEPT ![w] = "done"]
    /\ UNCHANGED <<parts, tables, next_run_id, next_inv_id, reply, data, idx, parts_to_nest>>

\* the response has been delivered; finally: db.close()
Return(w) ==
    /\ pc[w] = "done"
    /\ pc' = [pc EXCEPT ![w] = "idle"]
    /\ data' = [data EXCEPT ![w] = NoData]
    /\ idx' = [idx EXCEPT ![w] = 0]
    /\ parts_to_nest' = [parts_to_nest EXCEPT ![w] = <<>>]
    /\ response' = [response EXCEPT ![w] = NoResponse]
    /\ UNCHANGED <<parts, tables, next_run_id, next_inv_id, reply, session>>


\* ---------------------------------------------------------------------------
\* delete_nest_run, unnest_parts, disposition_drop (one transaction each)
\* ---------------------------------------------------------------------------
\* the MaterialInventory rows the delete loop removes for one drop
InventoryOfDrop(inv, d) ==
    {m \in inv : /\ m.source_type = "drop"
                 /\ m.shape = d.shape
                 /\ m.dimensions = d.dimensions
                 /\ m.length_inches = d.drop_length_inches}

\* delete_nest_run(nest_run_id) on an existing run (404 otherwise)
\* the NULL of the nullable integer column RFQv2.nest_run_id (primary keys
\* start at 1)
NullId == 0

\* the update as it would be if it were missing
KeepRfqs(rfq_rows, run_ids) == rfq_rows

\* db.query(RFQv2).filter(RFQv2.nest_run_id == nest_run_id).update(
\*     {RFQv2.nest_run_id: None})
NullifyRfqs(rfq_rows, run_ids) ==
    {IF rfq.nest_run_id \in run_ids THEN [rfq EXCEPT !.nest_run_id = NullId] ELSE rfq :
        rfq \in rfq_rows}

DeleteNestRun(nest_run_id) ==
    /\ \E nr \in nest_runs : nr.id = nest_run_id
    /\ rfqs' = NullifyRfqs(rfqs, {nest_run_id})
    /\ LET drops == {d \in nest_run_drops : d.nest_run_id = nest_run_id}
       IN  /\ material_inventory' = material_inventory \
                UNION {InventoryOfDrop(material_inventory, d) :
                         d \in {x \in drops : x.disposition = "inventory"}}
           /\ nest_run_drops' = nest_run_drops \ drops
    /\ nest_run_items' = {it \in nest_run_items : it.nest_run_id # nest_run_id}
    /\ nest_runs' = {nr \in nest_runs : nr.id # nest_run_id}
    /\ UNCHANGED <<parts, next_run_id, next_inv_id, reply, locals>>

\* the loop as it would be if it deleted every item of the runs it touches
ItemsOfTouchedRuns(items, part_ids) ==
    {it \in items : \E x \in items : x.part_id \in part_ids /\ x.nest_run_id = it.nest_run_id}

\* the items the first loop of unnest_parts deletes
UnnestedItems(items, part_ids) == {it \in items : it.part_id \in part_ids}

\* unnest_parts(part_ids)
UnnestParts(part_ids) ==
    LET gone == UnnestedItems(nest_run_items, part_ids)
        left == nest_run_items \ gone
        affected_runs == {it.nest_run_id : it \in gone}
        emptied == {r \in affected_runs : ~\E it \in left : it.nest_run_id = r}
        Remaining(r) == Cardinality({it \in left : it.nest_run_id = r})
    IN  /\ nest_run_items' = left
        /\ rfqs' = NullifyRfqs(rfqs, emptied)
        /\ nest_run_drops' = {d \in nest_run_drops : d.nest_run_id \notin emptied}
        /\ nest_runs' =
              {IF nr.id \in affected_runs
               THEN [nr EXCEPT !.total_parts_cut = Remaining(nr.id)] ELSE nr :
                  nr \in {x \in nest_runs : x.id \notin emptied}}
        /\ UNCHANGED <<parts, material_inventory, next_run_id, next_inv_id, reply, locals>>

\* the guard as it would be if it were missing
NeverDispositioned(drop) == FALSE

\* if drop.disposition: raise HTTPException(400, ...)
AlreadyDispositioned(drop) == drop.disposition # None /\ drop.disposition # ""

\* the record as it would be with the stock length for the drop length
InventoryOfStockLength(inv_id, drop, location, operator) ==
    [id |-> inv_id, source_type |-> "drop",
     shape |-> drop.shape, dimensions |-> drop.dimensions, grade |-> drop.grade,
     length_inches |-> drop.stock_length_inches,
     location |-> location, status |-> "available", added_by |-> operator]

\* inv = MaterialInventory(source_type="drop", ...)
InventoryFromDrop(inv_id, drop, location, operator) ==
    [id |-> inv_id, source_type |-> "drop",
     shape |-> drop.shape, dimensions |-> drop.dimensions, grade |-> drop.grade,
     length_inches |-> drop.drop_length_inches,
     location |-> location, status |-> "available", added_by |-> operator]

\* disposition_drop(drop_id, action, location, operator) on an existing drop
\* (404 otherwise); on a dispositioned drop the call is rejected with 400
DispositionDrop(drop_id, action, location, operator) ==
    /\ \E drop \in nest_run_drops :
         /\ drop.id = drop_id
         /\ IF AlreadyDispositioned(drop)
            THEN /\ reply' = [status |-> 400, drop_id |-> drop_id, action |-> action]
                 /\ UNCHANGED <<nest_run_drops, material_inventory, next_inv_id>>
            ELSE /\ nest_run_drops' = (nest_run_drops \ {drop}) \cup
                       {[drop EXCEPT !.disposition = action,
                                     !.disposition_date = "utcnow",
                                     !.disposition_by = operator,
                                     !.inventory_location =
                                         IF action = "inventory" THEN location ELSE @]}
                 /\ IF action = "inventory"
                    THEN /\ material_inventory' = material_inventory \cup
                               {InventoryFromDrop(next_inv_id, drop, location, operator)}
                         /\ next_inv_id' = next_inv_id + 1
                    ELSE UNCHANGED <<material_inventory, next_inv_id>>
                 /\ reply' = [status |-> 200, drop_id |-> drop_id, action |-> action]
    /\ UNCHANGED <<parts, nest_runs, nest_run_items, rfqs, next_run_id, locals>>

\* sl = stock_lengths.get((ni.shape, ni.dimensions, ni.grade, ni.stock_index), 480)
RfqDefaultInches == 480

HardwareShapes == {"HS", "NU", "WA", "MB", "ROD", "AB"}

\* q.all(): the NestRunItem rows of the run, in primary-key order
RECURSIVE ItemsInOrder(_)
ItemsInOrder(rows) ==
    IF rows = {} THEN <<>>
    ELSE LET first == CHOOSE r \in rows : \A o \in rows : r.id[2] <= o.id[2]
         IN  <<first>> \o ItemsInOrder(rows \ {first})

\* the drops that make the entry of stock_lengths the item looks up
DropsOfItem(drops, ni) ==
    {d \in drops : /\ d.shape = ni.shape /\ d.dimensions = ni.dimensions
                   /\ d.grade = ni.grade /\ d.stock_index = ni.stock_index}

\* stock_lengths.get((ni.shape, ni.dimensions, ni.grade, ni.stock_index), 480)
RfqStockLength(drops, ni) ==
    IF DropsOfItem(drops, ni) # {}
    THEN (CHOOSE d \in DropsOfItem(drops, ni) : TRUE).stock_length_inches
    ELSE Inch(RfqDefaultInches)

\* position in material of the key shape|dimensions|grade|sl_ft, 0 if none
MaterialIndex(material, ni, sl_ft) ==
    IF \E i \in DOMAIN material :
          /\ material[i].shape = ni.shape /\ material[i].dimensions = ni.dimensions
          /\ material[i].grade = ni.grade /\ material[i].stock_length_ft = sl_ft
    THEN CHOOSE i \in DOMAIN material :
          /\ material[i].shape = ni.shape /\ material[i].dimensions = ni.dimensions
          /\ material[i].grade = ni.grade /\ material[i].stock_length_ft = sl_ft
    ELSE 0

\* for ni in nest_items: ... material[key]["stock_indices"].add(ni.stock_index)
\* (stock_length_ft in tenths of a foot)
RECURSIVE Consolidate(_, _, _)
Consolidate(material, nest_items, drops) ==
    IF nest_items = <<>> THEN material
    ELSE LET ni == Head(nest_items)
             sl_ft == RoundTenthFeet(RfqStockLength(drops, ni))
             i == MaterialIndex(material, ni, sl_ft)
         IN  Consolidate(
                IF i # 0
                THEN [material EXCEPT ![i].stock_indices = @ \cup {ni.stock_index}]
                ELSE Append(material,
                            [shape |-> ni.shape, dimensions |-> ni.dimensions,
                             grade |-> ni.grade, stock_length_ft |-> sl_ft,
                             stock_indices |-> {ni.stock_index}]),
                Tail(nest_items), drops)

\* RFQItemv2(...) for one entry of material: length_display as <<ft, inch_rem>>,
\* length_inches = sl_ft * 12 in tenths of an inch
RfqItem(mat, line_num, exclude_hardware) ==
    [line_number |-> line_num,
     qty |-> Cardinality(mat.stock_indices),
     shape |-> mat.shape, dimensions |-> mat.dimensions, grade |-> mat.grade,
     length_display |-> << mat.stock_length_ft \div 10,
                           ((mat.stock_length_ft % 10) * InchesPerFoot + 5) \div 10 >>,
     length_inches |-> mat.stock_length_ft * InchesPerFoot,
     is_hardware |-> mat.shape \in HardwareShapes,
     excluded |-> mat.shape \in HardwareShapes /\ exclude_hardware]

\* the RFQ lines of a nest run (item_ids empty: every item of the run)
RfqItems(items, drops, nest_run_id, exclude_hardware) ==
    LET material == Consolidate(<<>>,
                                ItemsInOrder({ni \in items : ni.nest_run_id = nest_run_id}),
                                {d \in drops : d.nest_run_id = nest_run_id})
    IN  [i \in DOMAIN material |-> RfqItem(material[i], i, exclude_hardware)]

\* create_rfq(project_id, data): the project exists; the RFQ row gets the
\* next primary key and the nest_run_id of the request, which the handler
\* does not look up; its RFQItemv2 rows are kept with it as items.  The
\* column's ForeignKey is declared in the mapping only: the default engine,
\* sqlite:///./tracker.db, is opened without PRAGMA foreign_keys = ON and
\* stores the id unchecked
CreateRfq(project_id, nest_run_id) ==
    /\ rfqs' = rfqs \cup {[id |-> Cardinality(rfqs) + 1, job_id |-> project_id,
                           nest_run_id |-> nest_run_id, status |-> "draft",
                           items |-> RfqItems(nest_run_items, nest_run_drops,
                                              nest_run_id, TRUE)]}
    /\ UNCHANGED <<parts, nest_runs, nest_run_items, nest_run_drops, material_inventory,
                   seqs, reply, locals>>

\* the operator has seen the reply
DeliverReply ==
    /\ reply # NoReply
    /\ reply' = NoReply
    /\ UNCHANGED <<parts, tables, seqs, locals>>

\* ---------------------------------------------------------------------------
\* A direct call of nest_linear on pieces built from the parts table
\* ---------------------------------------------------------------------------
\* CutPiece(part_mark=..., quantity=p.quantity * asm.assembly_quantity, ...)
CutPieceOf(part) ==
    [part_mark |-> part.part_mark, assembly_mark |-> part.assembly_mark,
     shape |-> part.shape, dimensions |-> part.dimensions, grade |-> part.grade,
     length_inches |-> part.length_inches,
     quantity |-> part.quantity * part.assembly_quantity]

NestLinear(w, ids, stock_lengths, inventory) ==
    /\ pc[w] = "idle"
    /\ LET pieces == [i \in DOMAIN ids |-> CutPieceOf(parts[ids[i]])]
       IN  response' = [response EXCEPT ![w] =
                [status |-> 0, pieces |-> pieces,
                 result |-> nest_linear(pieces, stock_lengths, inventory, KERF)]]
    /\ pc' = [pc EXCEPT ![w] = "nested"]
    /\ UNCHANGED <<parts, tables, next_run_id, next_inv_id, reply, data, idx,
                   parts_to_nest, session>>

\* parts = db.query(Part).join(Assembly).filter(Assembly.project_id ==
\* project_id, Part.is_hardware == False, Part.length_inches > 0,
\* Part.shape != "PL"): the ids of the rows, in the order of the table
ProjectPartIds ==
    SelectSeq([i \in DOMAIN parts |-> i],
              LAMBDA i : /\ ~parts[i].is_hardware
                         /\ parts[i].length_inches > 0
                         /\ parts[i].shape # "PL")

\* result = nest_linear(cut_pieces, stock_lengths, inventory)
RunNestingWith(w, cut_pieces, stock_lengths, inventory) ==
    response' = [response EXCEPT ![w] =
        [status |-> 0, pieces |-> cut_pieces,
         result |-> nest_linear(cut_pieces, stock_lengths, inventory, KERF)]]

\* run_nesting(project_id): the project exists, the tables
\* StockLengthConfig and Inventory (tracker_inventory) hold no row
RunNesting(w) ==
    /\ pc[w] = "idle"
    /\ RunNestingWith(w, [k \in DOMAIN ProjectPartIds |->
                             CutPieceOf(parts[ProjectPartIds[k]])],
                      DEFAULT_STOCK_LENGTHS, <<>>)
    /\ pc' = [pc EXCEPT ![w] = "nested"]
    /\ UNCHANGED <<parts, tables, next_run_id, next_inv_id, reply, data, idx,
                   parts_to_nest, session>>

\* the caller has taken the NestResult
ReturnLinear(w) ==
    /\ pc[w] = "nested"
    /\ pc' = [pc EXCEPT ![w] = "idle"]
    /\ response' = [response EXCEPT ![w] = NoResponse]
    /\ UNCHANGED <<parts, tables, next_run_id, next_inv_id, reply, data, idx,
                   parts_to_nest, session>>

\* ---------------------------------------------------------------------------
\* Specifications
\* ---------------------------------------------------------------------------
\* forced stock length of the requests: 80 in
ForcedStock == Inch(80)
ShortPiece == Inch(25)

\* the parts of the ledger specifications: 25 in pieces of one material,
\* part i in quantity ((i - 1) mod MaxQuantity) + 1
LedgerParts ==
    [i \in PartIds |->
        [part_mark |-> Mark(i)] @@ LinearRow(ShortPiece, ((i - 1) % MaxQuantity) + 1)]

\* the id lists that name their parts in ascending order (repeats allowed)
Sorted(q) == \A i, j \in DOMAIN q : i < j => q[i] <= q[j]

LedgerRequests(w) ==
    {[part_ids |-> ids, stock_length_inches |-> ForcedStock,
      stock_overrides |-> NoOverrides, operator |-> w, nest_mode |-> "mult"] :
        ids \in {q \in SeqsUpTo(PartIds, MaxPartIds) \ {<<>>} : Sorted(q)}}

\* the requests that name no part twice
NoRepeat(q) == \A i, j \in DOMAIN q : i # j => q[i] # q[j]
OncePerPart(w) == {d \in LedgerRequests(w) : NoRepeat(d.part_ids)}

Actions == {"inventory", "scrap"}

Init ==
    /\ parts = LedgerParts
    /\ InitTables
    /\ InitLocals

\* Spec: concurrent run_nest requests and delete_nest_run
Next ==
    \/ \E w \in Workers : \E d \in OncePerPart(w) : Begin(w, d)
    \/ \E w \in Workers : ValidatePart(w)
    \/ \E w \in Workers : Stage(w)
    \/ \E w \in Workers : Commit(w)
    \/ \E w \in Workers : Fail(w)
    \/ \E w \in Workers : Return(w)
    \/ \E nr \in nest_runs : DeleteNestRun(nr.id)

Spec == Init /\ [][Next]_vars

\* no request is being served and the last reply has been delivered
Quiet == pc["w1"] = "idle" /\ reply = NoReply

\* SpecDrops: one client whose calls of run_nest, delete_nest_run,
\* unnest_parts, disposition_drop, create_rfq and run_nesting follow one
\* another and who creates one RFQ
NextDrops ==
    \/ Quiet /\ \E d \in OncePerPart("w1") : Begin("w1", d)
    \/ ValidatePart("w1")
    \/ Stage("w1")
    \/ Commit("w1")
    \/ Return("w1")
    \/ Quiet /\ \E nr \in nest_runs : DeleteNestRun(nr.id)
    \/ Quiet /\ \E ids \in (SUBSET PartIds) \ {{}} : UnnestParts(ids)
    \/ Quiet /\ \E drop \in nest_run_drops : \E action \in Actions :
          DispositionDrop(drop.id, action, "rack", "amy")
    \/ Quiet /\ rfqs = {} /\ \E nest_run_id \in 1..MaxRuns : CreateRfq(1, nest_run_id)
    \/ Quiet /\ RunNesting("w1")
    \/ ReturnLinear("w1")
    \/ DeliverReply

SpecDrops == Init /\ [][NextDrops]_vars

\* SpecNest: one caller who nests on an empty ledger, parts and requests
\* drawn broadly; a committed run is deleted before the next call
NestRows ==
    {LinearRow(ShortPiece, q) : q \in 1..MaxQuantity}
    \cup {LinearRow(l, 1) : l \in {ForcedStock - DefaultKerf, ForcedStock, Inch(100),
                                    ForcedStock - Inch(DropThresholdInches) - DefaultKerf}}
    \cup {PlateRow(PL12, q) : q \in 1..MaxQuantity}
    \cup {PlateRow(PL40, 1)}
    \cup {LinearRow(ShortPiece - Inch(1), 1),
          PartRow("W", W8X10, "A36", ShortPiece, 1, 1),
          PartRow("PL", <<"1", "/", "4", "x", "4", "0">>, "A36", Inch(40), 1, 1)}

\* stock of 2 1/8 ft and 2 1/16 ft (25.5 in and 24.75 in) for W shapes
CloseOverrides == [c \in {"W"} |-> <<34, 33>>]

NestRequests ==
    {[part_ids |-> ids, stock_length_inches |-> sl,
      stock_overrides |-> NoOverrides, operator |-> "w1", nest_mode |-> m] :
        ids \in SeqsUpTo(1..(NumParts + 1), MaxPartIds), sl \in {0, ForcedStock},
        m \in {"mult", "plate"}}
    \cup {[part_ids |-> ids, stock_length_inches |-> 0,
           stock_overrides |-> CloseOverrides, operator |-> "w1",
           nest_mode |-> "mult"] :
              ids \in SeqsUpTo(1..(NumParts + 1), MaxPartIds)}

LinearStockLengths == {DEFAULT_STOCK_LENGTHS, [c \in {"W"} |-> <<7, 5>>]}

LinearInventories ==
    {<<>>, << [id |-> 1, shape |-> "W", dimensions |-> W8X10, grade |-> "A992",
               length_inches |-> Inch(30), quantity |-> 1] >>}

Cleared == pc["w1"] = "idle" /\ nest_runs = {}

InitNest ==
    /\ parts \in PartTables(NestRows)
    /\ InitTables
    /\ InitLocals

NextNest ==
    \/ Cleared /\ \E d \in NestRequests : Begin("w1", d)
    \/ ValidatePart("w1")
    \/ Stage("w1")
    \/ Commit("w1")
    \/ Return("w1")
    \/ pc["w1"] = "idle" /\ \E nr \in nest_runs : DeleteNestRun(nr.id)
    \/ Cleared /\ \E ids \in SeqsUpTo(PartIds, MaxPartIds) \ {<<>>} :
          \E sl \in LinearStockLengths : \E inv \in LinearInventories :
              NestLinear("w1", ids, sl, inv)
    \/ ReturnLinear("w1")

SpecNest == InitNest /\ [][NextNest]_vars

\* ---------------------------------------------------------------------------
\* Properties: vocabulary
\* ---------------------------------------------------------------------------
\* the parts some NestRunItem references
LockedParts(items) == {it.part_id : it \in items}

RunItems(items, run_id) == {it \in items : it.nest_run_id = run_id}
RunDrops(drops, run_id) == {d \in drops : d.nest_run_id = run_id}

\* effective quantity a validated batch asks for, in all and for one part
Requested(batch) == SumSeq([i \in DOMAIN batch |-> batch[i].quantity])
RequestedOf(batch, pid) ==
    SumSeq([i \in DOMAIN batch |-> IF batch[i].id = pid THEN batch[i].quantity ELSE 0])

\* the places <<bin, position>> of the cut lists of one result
CutPlaces(bins) == UNION {{<<b, c>> : c \in DOMAIN bins[b].cuts} : b \in DOMAIN bins}

\* the request of slot w has committed its run
Committed(w) == pc[w] = "done" /\ response[w].status = 200

\* the step is the check of one part id by the request of slot w
ChecksPart(w) ==
    /\ pc[w] = "validate"
    /\ idx[w] <= Len(data[w].part_ids)
    /\ (pc'[w] # pc[w] \/ idx'[w] # idx[w])

LedgerUnchanged ==
    /\ nest_runs' = nest_runs
    /\ nest_run_items' = nest_run_items
    /\ nest_run_drops' = nest_run_drops

\* ---------------------------------------------------------------------------
\* Locking
\* ---------------------------------------------------------------------------
\* C1: in every persisted state, all NestRunItems that reference one part
\* belong to one single NestRun, also when run_nest requests that share a
\* part interleave their check and their insert.
OneRunPerPart ==
    \A a, b \in nest_run_items : a.part_id = b.part_id => a.nest_run_id = b.nest_run_id

\* C2: sequential locking. A request that checks part P is rejected with
\* "locked" exactly when a NestRunItem references P; otherwise P joins the
\* batch, a batch that passed the check goes on to commit, and the commit
\* creates new NestRunItems of the new run for every part of the batch.
\* Whenever delete_nest_run or unnest_parts removes an item of P, no item of
\* P is left, so the next request that includes P passes the check.
SequentialLocking ==
    [][\A w \in Workers :
        /\ ChecksPart(w) =>
             LET pid == data[w].part_ids[idx[w]]
                 referenced == \E it \in nest_run_items : it.part_id = pid
             IN  /\ referenced <=>
                        /\ pc'[w] = "done"
                        /\ response'[w] =
                              [status |-> 400, detail |-> "locked", part_id |-> pid]
                 /\ ~referenced =>
                        /\ pc'[w] = "validate"
                        /\ parts_to_nest'[w] # <<>>
                        /\ parts_to_nest'[w][Len(parts_to_nest'[w])].id = pid
        /\ (/\ pc[w] = "validate" /\ pc'[w] # pc[w]
            /\ idx[w] > Len(data[w].part_ids) /\ parts_to_nest[w] # <<>>)
              => pc'[w] = "commit"
        /\ (pc[w] = "commit" /\ pc'[w] = "done") =>
              /\ response'[w].status = 200
              /\ \A i \in DOMAIN parts_to_nest[w] :
                    \E it \in nest_run_items' \ nest_run_items :
                        /\ it.part_id = parts_to_nest[w][i].id
                        /\ it.nest_run_id = response'[w].nest_run_id
        /\ \A it \in nest_run_items \ nest_run_items' :
              it.part_id \notin LockedParts(nest_run_items')]_vars

\* run 1 lost its first part to unnest_parts and still holds another, and
\* every part is locked: the unnested part has been nested again in run 2
RenestedAfterUnnest ==
    /\ \E nr \in nest_runs : nr.id = 1
    /\ ~\E it \in nest_run_items :
          it.nest_run_id = 1 /\ it.stock_index = 0 /\ it.cut_position = 0
    /\ \A pid \in PartIds : pid \in LockedParts(nest_run_items)

\* ---------------------------------------------------------------------------
\* Atomicity and rejection
\* ---------------------------------------------------------------------------
\* C3: run_nest is atomic. The rows of a run become visible in one step,
\* header, items and drops together: as many items as the batch has unit
\* pieces, for each part its own, and one drop per bin with a tracked
\* leftover; an item or drop never appears under a header that was already
\* there, none exists without its header, and a request that ends without
\* committing leaves the three tables as they were and nothing staged.
RunNestAtomic ==
    [][/\ \A it \in nest_run_items' : \E nr \in nest_runs' : nr.id = it.nest_run_id
       /\ \A d \in nest_run_drops' : \E nr \in nest_runs' : nr.id = d.nest_run_id
       /\ \A nr \in nest_runs' :
            (nr.id \notin {x.id : x \in nest_runs}) =>
               \E w \in Workers :
                  /\ pc[w] = "commit" /\ pc'[w] = "done"
                  /\ response'[w].status = 200
                  /\ response'[w].nest_run_id = nr.id
                  /\ Cardinality(RunItems(nest_run_items', nr.id))
                        = Requested(parts_to_nest[w])
                  /\ \A pid \in PartIds :
                        Cardinality({it \in RunItems(nest_run_items', nr.id) :
                                        it.part_id = pid})
                           = RequestedOf(parts_to_nest[w], pid)
                  /\ Cardinality(RunDrops(nest_run_drops', nr.id))
                        = Cardinality({<<k, b>> \in
                             UNION {{<<k, b>> : b \in DOMAIN response[w].all_results[k].bins} :
                                       k \in DOMAIN response[w].all_results} :
                             response[w].all_results[k].bins[b].remaining
                                > Inch(DropThresholdInches)})
       /\ \A it \in nest_run_items' :
            (it.id \notin {x.id : x \in nest_run_items})
               => it.nest_run_id \notin {x.id : x \in nest_runs}
       /\ \A d \in nest_run_drops' :
            (d.id \notin {x.id : x \in nest_run_drops})
               => d.nest_run_id \notin {x.id : x \in nest_runs}
       /\ \A w \in Workers :
            (pc[w] # "done" /\ pc'[w] = "done" /\ response'[w].status # 200) =>
               /\ LedgerUnchanged
               /\ session'[w] = NoSession]_vars

\* a request had flushed its header and failed: nothing of it is persisted
RolledBack ==
    \E w \in Workers :
        /\ pc[w] = "done" /\ response[w].status = 500
        /\ next_run_id > 1
        /\ nest_runs = {} /\ nest_run_items = {} /\ nest_run_drops = {}

\* C4: when the part a request checks is already referenced by a NestRunItem
\* the whole request is rejected: it ends with 400, it has staged nothing,
\* the three tables and the set of locked parts are as before, also for the
\* parts of the batch that passed the check, and the rejected request does
\* nothing more than return.
WholeBatchRejected ==
    [][\A w \in Workers :
        /\ (ChecksPart(w)
            /\ data[w].part_ids[idx[w]] \in LockedParts(nest_run_items)) =>
              /\ pc'[w] = "done"
              /\ response'[w].status = 400
              /\ session[w] = NoSession /\ session'[w] = NoSession
              /\ LedgerUnchanged
              /\ LockedParts(nest_run_items') = LockedParts(nest_run_items)
        /\ (pc[w] = "done" /\ response[w].status = 400 /\ pc'[w] # pc[w]) =>
              /\ pc'[w] = "idle"
              /\ session'[w] = NoSession
              /\ LedgerUnchanged]_vars

\* a rejected batch whose other parts had passed the check; they stay unlocked
BatchRejected ==
    \E w \in Workers :
        /\ pc[w] = "done"
        /\ response[w].status = 400 /\ response[w].detail = "locked"
        /\ parts_to_nest[w] # <<>>
        /\ \A i \in DOMAIN parts_to_nest[w] :
              parts_to_nest[w][i].id \notin LockedParts(nest_run_items)

\* ---------------------------------------------------------------------------
\* Placement
\* ---------------------------------------------------------------------------
\* C5: no double placement. For every committed request, whatever its
\* part_ids, each unit piece is in at most one bin's cut list and a part of
\* effective quantity N has at most N NestRunItems in the new run.
NoDoublePlacement ==
    \A w \in Workers :
        Committed(w) =>
            /\ \A k \in DOMAIN response[w].all_results :
                 LET res == response[w].all_results[k]
                 IN  \A i \in DOMAIN res.part_refs :
                        Cardinality({pl \in CutPlaces(res.bins) :
                                        res.bins[pl[1]].cuts[pl[2]][1] = i}) <= 1
            /\ \A pid \in DOMAIN parts :
                 Cardinality({it \in RunItems(nest_run_items, response[w].nest_run_id) :
                                 it.part_id = pid})
                    <= parts[pid].quantity * parts[pid].assembly_quantity

\* what both statements of C6 say of run_nest: every unit piece of every
\* part of the batch is in the cut list of some bin and has its NestRunItem
RunNestKeepsPieces(w) ==
    Committed(w) =>
        /\ \A k \in DOMAIN response[w].all_results :
             LET res == response[w].all_results[k]
             IN  \A i \in DOMAIN res.part_refs :
                    \E pl \in CutPlaces(res.bins) : res.bins[pl[1]].cuts[pl[2]][1] = i
        /\ SumSeq([k \in DOMAIN response[w].all_results |->
                      Len(response[w].all_results[k].part_refs)])
              = Requested(parts_to_nest[w])
        /\ \A pid \in DOMAIN parts :
             Cardinality({it \in RunItems(nest_run_items, response[w].nest_run_id) :
                             it.part_id = pid})
                >= RequestedOf(parts_to_nest[w], pid)

\* the unit piece is in the cuts of exactly one returned bar and not
\* unplaced, or in no bar and in the unplaced list
InOneBarOrUnplaced(result, uid) ==
    LET in_bars == Cardinality({pl \in CutPlaces(result.bars) :
                                   result.bars[pl[1]].cuts[pl[2]].uid = uid})
        in_unplaced == Cardinality({c \in DOMAIN result.unplaced :
                                       result.unplaced[c].uid = uid})
    IN  \/ in_bars = 1 /\ in_unplaced = 0
        \/ in_bars = 0 /\ in_unplaced = 1

InNoBarNorUnplaced(result, uid) ==
    /\ \A pl \in CutPlaces(result.bars) : result.bars[pl[1]].cuts[pl[2]].uid # uid
    /\ \A c \in DOMAIN result.unplaced : result.unplaced[c].uid # uid

\* C6 as claimed: nesting never silently discards a piece. run_nest keeps
\* every unit piece, and nest_linear returns every unit piece of its input
\* either in the cuts of exactly one bar or in the unplaced list.
NeverDiscards ==
    \A w \in Workers :
        /\ RunNestKeepsPieces(w)
        /\ pc[w] = "nested" =>
             \A i \in DOMAIN ExpandPieces(response[w].pieces, 0) :
                InOneBarOrUnplaced(response[w].result,
                                   ExpandPieces(response[w].pieces, 0)[i].uid)

\* C6 as amended: run_nest keeps every unit piece; nest_linear returns every
\* unit piece whose shape category is not PL either in the cuts of exactly
\* one bar or in the unplaced list, and leaves the pieces of category PL out
\* of both.
NeverDiscardsButPlates ==
    \A w \in Workers :
        /\ RunNestKeepsPieces(w)
        /\ pc[w] = "nested" =>
             LET expanded == ExpandPieces(response[w].pieces, 0)
             IN  \A i \in DOMAIN expanded :
                    IF get_shape_category(expanded[i].shape) = "PL"
                    THEN InNoBarNorUnplaced(response[w].result, expanded[i].uid)
                    ELSE InOneBarOrUnplaced(response[w].result, expanded[i].uid)

\* nest_linear was given a plate and a piece no stock length holds, and
\* returned the second as unplaced
UnplacedBesidePlate ==
    \E w \in Workers :
        /\ pc[w] = "nested"
        /\ \E i \in DOMAIN response[w].pieces : response[w].pieces[i].shape = "PL"
        /\ response[w].result.unplaced # <<>>

\* C7: conservation. For every linear bin of a committed run with n >= 1
\* cuts: sum of the cut lengths + leftover + kerf * (n - 1) = stock length.
Conservation ==
    \A w \in Workers :
        Committed(w) =>
            \A k \in DOMAIN response[w].all_results :
                LET res == response[w].all_results[k]
                    kerf == KerfFor(StockCfgFor(MappedShape(res.shape)))
                IN  ~res.is_plate =>
                      \A b \in DOMAIN res.bins :
                         LET bin == res.bins[b]
                             n == Len(bin.cuts)
                         IN  n >= 1 =>
                               SumSeq([c \in DOMAIN bin.cuts |-> bin.cuts[c][2]])
                                  + bin.remaining + kerf * (n - 1)
                                  = bin.stock_length

\* C8: oversized handling. In a committed run every unit piece longer than
\* the largest stock length of its group is the first cut of a bin of that
\* largest length; for every part mark there are as many oversized warnings
\* as the part has unit pieces longer than the largest stock length of
\* their group, so one for each such piece and none for any other; and a
\* request with a validated batch is turned down only for a locked part or
\* for a plate group sent through the linear path against the catalog,
\* never for the length of a piece.
OversizedHandling ==
    \A w \in Workers :
        /\ Committed(w) =>
             LET results == response[w].all_results
                 linear == {k \in DOMAIN results : ~results[k].is_plate}
                 max_stock(k) ==
                     MaxSeq(AvailInches(data[w], results[k].shape,
                                        StockCfgFor(MappedShape(results[k].shape))))
                 oversized == {ki \in UNION {{<<k, i>> : i \in DOMAIN results[k].part_refs} :
                                                k \in linear} :
                                  results[ki[1]].cut_lengths[ki[2]] > max_stock(ki[1])}
             IN  /\ \A ki \in oversized :
                       \E b \in DOMAIN results[ki[1]].bins :
                          /\ results[ki[1]].bins[b].cuts[1][1] = ki[2]
                          /\ results[ki[1]].bins[b].stock_length = max_stock(ki[1])
                 /\ \A pid \in PartIds :
                       Cardinality({j \in DOMAIN response[w].warnings :
                                       /\ response[w].warnings[j].type = "oversized"
                                       /\ response[w].warnings[j].part_mark = Mark(pid)})
                          = Cardinality({ki \in oversized :
                                            results[ki[1]].part_refs[ki[2]].part_mark
                                               = Mark(pid)})
                 /\ \A j \in DOMAIN response[w].warnings :
                       response[w].warnings[j].type = "oversized"
        /\ (pc[w] = "done" /\ response[w].status # 200 /\ parts_to_nest[w] # <<>>) =>
              \/ response[w].status = 400 /\ response[w].detail = "locked"
              \/ /\ response[w].status = 500
                 /\ data[w].nest_mode = "mult" /\ data[w].stock_length_inches = 0
                 /\ \E i \in DOMAIN parts_to_nest[w] :
                       Upper(parts_to_nest[w][i].shape) \in PLATE_SHAPES

\* a committed run with an oversized warning whose piece has its NestRunItem
OversizedCommitted ==
    \E w \in Workers :
        /\ Committed(w)
        /\ response[w].warnings # <<>>
        /\ \E it \in RunItems(nest_run_items, response[w].nest_run_id) :
              /\ it.cut_length_inches > data[w].stock_length_inches
              /\ it.part_mark = response[w].warnings[1].part_mark

\* ---------------------------------------------------------------------------
\* Drop disposition
\* ---------------------------------------------------------------------------
\* the step is a disposition_drop call that was answered with the status
Dispositions(status) == reply' # reply /\ reply'.status = status

\* C9: a disposition_drop call on a drop that already has a disposition is
\* rejected, a rejected call changes no drop and no inventory record, and
\* a drop that has a disposition keeps its disposition, date, operator and
\* location as long as it exists: the disposition is set at most once.
NoRedisposition ==
    [][/\ (reply' # reply /\ reply'.status # 0) =>
            \A drop \in nest_run_drops :
               (drop.id = reply'.drop_id /\ drop.disposition # None)
                  => reply'.status = 400
       /\ Dispositions(400) =>
            /\ \E drop \in nest_run_drops :
                  drop.id = reply'.drop_id /\ drop.disposition # None
            /\ nest_run_drops' = nest_run_drops
            /\ material_inventory' = material_inventory
            /\ next_inv_id' = next_inv_id
       /\ \A drop \in nest_run_drops :
            drop.disposition # None =>
               \A after \in nest_run_drops' :
                  after.id = drop.id =>
                     /\ after.disposition = drop.disposition
                     /\ after.disposition_date = drop.disposition_date
                     /\ after.disposition_by = drop.disposition_by
                     /\ after.inventory_location = drop.inventory_location]_vars

\* a second call on a drop was rejected; the drop holds what the first set
RedispositionRejected ==
    /\ reply.status = 400
    /\ \E drop \in nest_run_drops :
          drop.id = reply.drop_id /\ drop.disposition \in Actions

\* C10: an accepted disposition_drop call finds the drop without a
\* disposition and sets its disposition, date and operator. With action
\* inventory it adds exactly one inventory record, of the drop's shape,
\* dimensions, grade and drop length, with status available, and removes
\* none; with action scrap it leaves the inventory as it is and changes
\* nothing else of the drop. No other drop, run or item changes.
DispositionEffect ==
    [][Dispositions(200) =>
          \E drop \in nest_run_drops :
             /\ drop.id = reply'.drop_id
             /\ drop.disposition = None
             /\ \E after \in nest_run_drops' :
                   /\ nest_run_drops' = (nest_run_drops \ {drop}) \cup {after}
                   /\ after.disposition = reply'.action
                   /\ after.disposition_date # None
                   /\ after.disposition_by # None
                   /\ [after EXCEPT !.disposition = None, !.disposition_date = None,
                                    !.disposition_by = None,
                                    !.inventory_location = None] = drop
                   /\ reply'.action = "scrap" =>
                         after.inventory_location = drop.inventory_location
             /\ nest_runs' = nest_runs /\ nest_run_items' = nest_run_items
             /\ reply'.action = "inventory" =>
                   /\ material_inventory \subseteq material_inventory'
                   /\ Cardinality(material_inventory' \ material_inventory) = 1
                   /\ \A inv \in material_inventory' \ material_inventory :
                         /\ inv.shape = drop.shape
                         /\ inv.dimensions = drop.dimensions
                         /\ inv.grade = drop.grade
                         /\ inv.length_inches = drop.drop_length_inches
                         /\ inv.status = "available"
             /\ reply'.action = "scrap" =>
                   material_inventory' = material_inventory]_vars

\* one drop went to inventory and one to scrap: one inventory record exists
InventoryAndScrap ==
    /\ \E drop \in nest_run_drops : drop.disposition = "scrap"
    /\ \E drop \in nest_run_drops :
          /\ drop.disposition = "inventory"
          /\ \E inv \in material_inventory :
                inv.length_inches = drop.drop_length_inches
    /\ Cardinality(material_inventory) = 1

\* ---------------------------------------------------------------------------
\* C11: inventory feedback
\* ---------------------------------------------------------------------------
\* the records of material_inventory that a piece of a result group could
\* be cut from: same shape, dimensions and grade, available, long enough
Remnants(result) ==
    {inv \in material_inventory :
        /\ inv.status = "available"
        /\ inv.shape = result.shape
        /\ inv.dimensions = result.dimensions
        /\ inv.grade = result.grade
        /\ \E i \in DOMAIN result.cut_lengths :
              result.cut_lengths[i] <= inv.length_inches}

\* C11: once a drop has been dispositioned to inventory, a later nesting
\* run over pieces of the same shape, dimensions and grade with a piece that
\* fits the remnant has a bin of the remnant's exact length with a piece
\* placed on it (the calls of one client follow one another, so the
\* inventory at the end of the run is the inventory the run started from).
InventoryFeedback ==
    \A w \in Workers :
       Committed(w) =>
          \A k \in DOMAIN response[w].all_results :
             ~response[w].all_results[k].is_plate =>
                \A inv \in Remnants(response[w].all_results[k]) :
                   \E b \in DOMAIN response[w].all_results[k].bins :
                      /\ response[w].all_results[k].bins[b].stock_length = inv.length_inches
                      /\ response[w].all_results[k].bins[b].cuts # <<>>

\* ---------------------------------------------------------------------------
\* C12: delete_nest_run
\* ---------------------------------------------------------------------------
\* the inventory records that carry what disposition_drop copied from the
\* drop: the rows made by dispositioning it to inventory
MadeFromDrop(inv, drop) ==
    {m \in inv : /\ m.source_type = "drop"
                 /\ m.shape = drop.shape
                 /\ m.dimensions = drop.dimensions
                 /\ m.grade = drop.grade
                 /\ m.length_inches = drop.drop_length_inches
                 /\ m.location = drop.inventory_location
                 /\ m.added_by = drop.disposition_by}

UnnestEmptiedRunLikeDelete ==
    [][\A ids \in (SUBSET PartIds) \ {{}} :
          UnnestParts(ids) =>
             \A nr \in nest_runs :
                IF RunItems(nest_run_items, nr.id) # {}
                      /\ RunItems(nest_run_items', nr.id) = {}
                THEN /\ ~\E after \in nest_runs' : after.id = nr.id
                     /\ RunDrops(nest_run_drops', nr.id) = {}
                     /\ \A drop \in RunDrops(nest_run_drops, nr.id) :
                           drop.disposition = "inventory" =>
                              MadeFromDrop(material_inventory', drop) = {}
                     /\ \A rfq \in rfqs' : rfq.nest_run_id # nr.id
                ELSE RunItems(nest_run_items', nr.id) # {} =>
                        \E after \in nest_runs' : after.id = nr.id]_vars

\* ---------------------------------------------------------------------------
\* C14: grouping purity
\* ---------------------------------------------------------------------------
\* the material group of a part: shape, thickness and grade for a plate,
\* shape, dimensions and grade otherwise
Material(p) ==
    IF Upper(p.shape) \in PLATE_SHAPES
    THEN <<p.shape, ParsePlateThickness(p.dimensions), p.grade>>
    ELSE <<p.shape, p.dimensions, p.grade>>

ResolvesToNothing(w) ==
    \A i \in DOMAIN data[w].part_ids : data[w].part_ids[i] \notin DOMAIN parts

\* C15: a run_nest request whose part_ids is empty or resolves to no part
\* is rejected and persists nothing: while it is served no run, item or drop
\* is staged or written and no run id is drawn, and it ends with status 400
\* "No valid parts to nest".
EmptySelectionRejected ==
    [][\A w \in Workers :
          (pc[w] = "validate" /\ ResolvesToNothing(w)) =>
             /\ nest_runs' = nest_runs
             /\ nest_run_items' = nest_run_items
             /\ nest_run_drops' = nest_run_drops
             /\ next_run_id' = next_run_id
             /\ session'[w] = NoSession
             /\ pc'[w] \in {"validate", "done"}
             /\ pc'[w] = "done" =>
                   /\ response'[w].status = 400
                   /\ response'[w].detail = "no valid parts"]_vars

\* a request naming only an id that is no part has been rejected
UnknownIdsRejected ==
    /\ pc["w1"] = "done"
    /\ data["w1"].part_ids # <<>>
    /\ ResolvesToNothing("w1")
    /\ response["w1"].status = 400
    /\ nest_runs = {}

\* ---------------------------------------------------------------------------
\* C16: purchase list
\* ---------------------------------------------------------------------------
\* the bins of a linear run_nest result with one stock length
BinsOfLength(result, stock_length) ==
    {b \in DOMAIN result.bins : result.bins[b].stock_length = stock_length}

\* the bars of a nest_linear result that must be bought, of one material
\* and one stock length
BarsToBuy(bars, shape, dimensions, grade, stock_length) ==
    {b \in DOMAIN bars : /\ ~bars[b].from_inventory
                         /\ bars[b].shape = shape
                         /\ bars[b].dimensions = dimensions
                         /\ bars[b].grade = grade
                         /\ bars[b].stock_length_inches = stock_length}

\* C16: the purchase list counts exactly the bins that must be bought. For
\* run_nest (whose bins are never from inventory) the quantities of the
\* buy_list add up to the number of bins, and every bin of a linear group is
\* counted by an entry of its material whose quantity is the number of bins
\* of that material and that stock length. For nest_linear the quantities
\* add up to the number of bars not from inventory, and each entry's
\* quantity is the number of such bars of its material and stock length.
PurchaseListExact ==
    \A w \in Workers :
       /\ Committed(w) =>
             /\ SumSeq([i \in DOMAIN response[w].buy_list |->
                           response[w].buy_list[i].qty])
                   = SumSeq([k \in DOMAIN response[w].all_results |->
                                Len(response[w].all_results[k].bins)])
             /\ \A k \in DOMAIN response[w].all_results :
                   ~response[w].all_results[k].is_plate =>
                      \A b \in DOMAIN response[w].all_results[k].bins :
                         \E i \in DOMAIN response[w].buy_list :
                            /\ response[w].buy_list[i].shape
                                  = response[w].all_results[k].shape
                            /\ response[w].buy_list[i].dimensions
                                  = response[w].all_results[k].dimensions
                            /\ response[w].buy_list[i].grade
                                  = response[w].all_results[k].grade
                            /\ response[w].buy_list[i].qty
                                  = Cardinality(BinsOfLength(
                                       response[w].all_results[k],
                                       response[w].all_results[k].bins[b].stock_length))
       /\ pc[w] = "nested" =>
             /\ SumSeq([i \in DOMAIN response[w].result.summary.purchase_list |->
                           response[w].result.summary.purchase_list[i].quantity])
                   = Cardinality({b \in DOMAIN response[w].result.bars :
                                     ~response[w].result.bars[b].from_inventory})
             /\ \A i \in DOMAIN response[w].result.summary.purchase_list :
                   response[w].result.summary.purchase_list[i].quantity
                      = Cardinality(BarsToBuy(
                           response[w].result.bars,
                           response[w].result.summary.purchase_list[i].shape,
                           response[w].result.summary.purchase_list[i].dimensions,
                           response[w].result.summary.purchase_list[i].grade,
                           response[w].result.summary.purchase_list[i].stock_length_ft))

\* ---------------------------------------------------------------------------
\* C17: project-scope collection
\* ---------------------------------------------------------------------------
\* the part is among the pieces handed to nest_linear (part marks are
\* unique in the parts table of the model)
HandedToNester(w, pid) ==
    \E i \in DOMAIN response[w].pieces :
       response[w].pieces[i].part_mark = parts[pid].part_mark

\* C17: when run_nesting gathers the cut pieces of a project, no part that
\* a NestRunItem refers to, no hardware part and no part of length zero is
\* among the pieces handed to the nester.
ProjectScopeExcludesLocked ==
    \A w \in Workers :
       pc[w] = "nested" =>
          \A pid \in DOMAIN parts :
             (\/ pid \in LockedParts(nest_run_items)
              \/ parts[pid].is_hardware
              \/ parts[pid].length_inches = 0) => ~HandedToNester(w, pid)

\* ---------------------------------------------------------------------------
\* SpecPack: the packing loops of run_nest (mult path) and nest_linear, one
\* iteration per step, on one material group W8X10 / A992
\* ---------------------------------------------------------------------------
PackKey == <<"W", W8X10, "A992">>

\* piece lengths: 5 in, 50 in, 60 in, 70 in and 19 ft
PackLengths == {Inch(5), Inch(50), Inch(60), Inch(70), Feet(19)}

\* stock_overrides of run_nest for W, in sixteenths of a foot (5 ft and
\* 10 ft, 20 ft and 40 ft), in both orders
PackOverrides == {<<80, 160>>, <<160, 80>>, <<320, 640>>, <<640, 320>>}

\* stock_lengths of nest_linear for W, in feet, in both orders
PackStockFeet == {<<5, 10>>, <<10, 5>>, <<20, 40>>, <<40, 20>>}

\* inventory handed to nest_linear: none, one 30 in bar of the group, or
\* two 60 in bars of the group, a 20 ft bar of another grade, a 70 in bar
\* of the group entered in lower case and an item of the group not in stock
PackInventories ==
    LinearInventories
    \cup {<< [id |-> 1, shape |-> "W", dimensions |-> W8X10, grade |-> "A992",
              length_inches |-> Inch(60), quantity |-> 2],
             [id |-> 2, shape |-> "W", dimensions |-> W8X10, grade |-> "A36",
              length_inches |-> Feet(20), quantity |-> 1],
             [id |-> 3, shape |-> "w", dimensions |-> W8X10, grade |-> "a992",
              length_inches |-> Inch(70), quantity |-> 1],
             [id |-> 4, shape |-> "W", dimensions |-> W8X10, grade |-> "A992",
              length_inches |-> Feet(20), quantity |-> 0] >>}

PackRequest(overrides) ==
    [part_ids |-> <<>>, stock_length_inches |-> 0,
     stock_overrides |-> [c \in {"W"} |-> overrides], operator |-> "w1",
     nest_mode |-> "mult"]

\* the unit CutPieces of the lengths, each with its own identity
PackPieces(cut_lengths) ==
    ExpandPieces([i \in DOMAIN cut_lengths |->
                    CutPieceOf([part_mark |-> Mark(1)] @@ LinearRow(cut_lengths[i], 1))],
                 0)

\* run_nest has expanded cut_lengths of the group
InitCuts(w) ==
    /\ pc = [x \in Workers |-> IF x = w THEN "sort_cuts" ELSE "idle"]
    /\ \E overrides \in PackOverrides :
          data = [x \in Workers |-> IF x = w THEN PackRequest(overrides) ELSE NoData]
    /\ \E cut_lengths \in SeqsUpTo(PackLengths, MaxPieces) \ {<<>>} :
          response = [x \in Workers |->
                        IF x = w THEN [status |-> 0, cut_lengths |-> cut_lengths,
                                       indexed |-> <<>>, bins |-> <<>>]
                        ELSE NoResponse]

\* nest_linear has grouped the expanded pieces
InitPieces(w) ==
    /\ pc = [x \in Workers |-> IF x = w THEN "sort_pieces" ELSE "idle"]
    /\ data = [x \in Workers |-> NoData]
    /\ \E cut_lengths \in SeqsUpTo(PackLengths, MaxPieces) \ {<<>>} :
       \E feet \in PackStockFeet : \E inventory \in PackInventories :
          response = [x \in Workers |->
                        IF x = w THEN [status |-> 0, pieces |-> PackPieces(cut_lengths),
                                       stock_lengths |-> [c \in {"W"} |-> feet],
                                       inventory |-> inventory,
                                       group_pieces |-> <<>>,
                                       st |-> [bars |-> <<>>, unplaced |-> <<>>]]
                        ELSE NoResponse]

InitPack ==
    /\ parts = LedgerParts
    /\ InitTables
    /\ idx = [w \in Workers |-> 0]
    /\ parts_to_nest = [w \in Workers |-> <<>>]
    /\ session = [w \in Workers |-> NoSession]
    /\ (InitCuts("w1") \/ InitPieces("w1"))

\* indexed = sorted(enumerate(cut_lengths), key=lambda x: -x[1]); bins = []
SortCuts(w) ==
    /\ pc[w] = "sort_cuts"
    /\ response' = [response EXCEPT ![w] =
            [@ EXCEPT !.indexed = IndexedDesc(response[w].cut_lengths,
                                              Len(response[w].cut_lengths)),
                      !.bins = <<>>]]
    /\ pc' = [pc EXCEPT ![w] = "place_cuts"]
    /\ UNCHANGED <<parts, tables, next_run_id, next_inv_id, reply, data, idx,
                   parts_to_nest, session>>

\* one iteration of  for orig_idx, length in indexed
PlaceNextCut(w) ==
    /\ pc[w] = "place_cuts"
    /\ response[w].indexed # <<>>
    /\ response' = [response EXCEPT ![w] =
            [@ EXCEPT !.bins = PlaceCut(@, Head(response[w].indexed),
                                        AvailInches(data[w], PackKey[1],
                                                    StockCfgFor(MappedShape(PackKey[1]))),
                                        KerfFor(StockCfgFor(MappedShape(PackKey[1])))),
                      !.indexed = Tail(@)]]
    /\ UNCHANGED <<parts, tables, next_run_id, next_inv_id, reply, pc, data, idx,
                   parts_to_nest, session>>

\* group_pieces.sort(key=lambda p: p.length_inches, reverse=True);
\* bars = list(inv_bars)
SortGroupPieces(w) ==
    /\ pc[w] = "sort_pieces"
    /\ response' = [response EXCEPT ![w] =
            [@ EXCEPT !.group_pieces = SortPiecesDesc(response[w].pieces),
                      !.st = [bars |-> InvBars(response[w].inventory, PackKey[1],
                                                PackKey[2], PackKey[3]),
                              unplaced |-> <<>>]]]
    /\ pc' = [pc EXCEPT ![w] = "place_pieces"]
    /\ UNCHANGED <<parts, tables, next_run_id, next_inv_id, reply, data, idx,
                   parts_to_nest, session>>

\* one iteration of  for piece in group_pieces
PlaceNextPiece(w) ==
    /\ pc[w] = "place_pieces"
    /\ response[w].group_pieces # <<>>
    /\ response' = [response EXCEPT ![w] =
            [@ EXCEPT !.st = PlacePiece(@, Head(response[w].group_pieces),
                                        AvailableInches(response[w].stock_lengths,
                                                        get_shape_category(PackKey[1]),
                                                        PackKey[1]),
                                        PackKey, KERF),
                      !.group_pieces = Tail(@)]]
    /\ UNCHANGED <<parts, tables, next_run_id, next_inv_id, reply, pc, data, idx,
                   parts_to_nest, session>>

NextPack ==
    \/ SortCuts("w1")
    \/ PlaceNextCut("w1")
    \/ SortGroupPieces("w1")
    \/ PlaceNextPiece("w1")

SpecPack == InitPack /\ [][NextPack]_vars

\* ---------------------------------------------------------------------------
\* Properties of the packing loops: vocabulary
\* ---------------------------------------------------------------------------
\* the open bins of a packing loop, whichever nester runs it: stock length,
\* recorded remaining and the lengths of the cuts in the order of placement
OpenBins(p, loc) ==
    IF p \in {"sort_cuts", "place_cuts"}
    THEN [b \in DOMAIN loc.bins |->
            [stock |-> loc.bins[b].stock_length,
             remaining |-> loc.bins[b].remaining,
             cuts |-> [c \in DOMAIN loc.bins[b].cuts |-> loc.bins[b].cuts[c][2]]]]
    ELSE [b \in DOMAIN loc.st.bars |->
            [stock |-> loc.st.bars[b].stock_length_inches,
             remaining |-> loc.st.bars[b].remaining_inches,
             cuts |-> [c \in DOMAIN loc.st.bars[b].cuts |->
                          loc.st.bars[b].cuts[c].length_inches]]]

\* the lengths of the pieces the loop has still to process, in its order
ToDo(p, loc) ==
    IF p \in {"sort_cuts", "place_cuts"}
    THEN [t \in DOMAIN loc.indexed |-> loc.indexed[t][2]]
    ELSE [t \in DOMAIN loc.group_pieces |-> loc.group_pieces[t].length_inches]

\* the kerf the loop works with
PackKerf(p) ==
    IF p \in {"sort_cuts", "place_cuts"} THEN KerfFor(StockCfgFor(MappedShape(PackKey[1])))
    ELSE KERF

\* the step is one iteration of the packing loop of slot w
Places(w) ==
    /\ pc[w] \in {"place_cuts", "place_pieces"}
    /\ response'[w] # response[w]

\* what bin would have left after a piece of the length: a bin that holds
\* cuts already loses the kerf of one more cut
Leftover(bin, length, kerf) ==
    bin.remaining - length - (IF bin.cuts # <<>> THEN kerf ELSE 0)

\* the open bins that can hold a piece of the length
Holders(bins, length, kerf) ==
    {i \in DOMAIN bins : Leftover(bins[i], length, kerf) >= 0}

\* bin i took the piece and no other bin changed
TookPiece(bins, after, i, length) ==
    /\ Len(after) = Len(bins)
    /\ after[i].cuts = Append(bins[i].cuts, length)
    /\ \A j \in DOMAIN bins : j # i => after[j] = bins[j]

\* one iteration places the first piece of todo: no piece placed before is
\* shorter and none still to come is longer; a bin that can hold the piece
\* and leaves the least takes it; the bins grow only when none can hold it
BestFitStep(bins, after, todo, kerf) ==
    /\ \A t \in DOMAIN todo : todo[t] <= todo[1]
    /\ \A b \in DOMAIN bins : \A c \in DOMAIN bins[b].cuts : bins[b].cuts[c] >= todo[1]
    /\ Holders(bins, todo[1], kerf) # {} =>
          \E i \in Holders(bins, todo[1], kerf) :
             /\ TookPiece(bins, after, i, todo[1])
             /\ \A j \in Holders(bins, todo[1], kerf) :
                   Leftover(bins[i], todo[1], kerf) <= Leftover(bins[j], todo[1], kerf)
    /\ Holders(bins, todo[1], kerf) = {} =>
          /\ Len(after) \in {Len(bins), Len(bins) + 1}
          /\ \A j \in DOMAIN bins : after[j] = bins[j]

Supplied(p, d, loc) ==
    IF p \in {"sort_cuts", "place_cuts"}
    THEN {OverrideInches(d.stock_overrides[PackKey[1]])[i] :
             i \in DOMAIN d.stock_overrides[PackKey[1]]}
    ELSE {Times12(loc.stock_lengths[PackKey[1]])[i] :
             i \in DOMAIN loc.stock_lengths[PackKey[1]]}

\* the supplied lengths a piece of the length can be cut from: the first
\* piece of a bin takes its length and no kerf
CanHold(supplied, length) == {sl \in supplied : sl >= length}

\* an iteration that opens a bin while a supplied length can hold the piece
\* opens it with the smallest such length
SmallestStockStep(bins, after, length, supplied) ==
    (Len(after) = Len(bins) + 1 /\ CanHold(supplied, length) # {}) =>
        /\ after[Len(after)].stock \in CanHold(supplied, length)
        /\ \A sl \in CanHold(supplied, length) : after[Len(after)].stock <= sl

\* C19: whenever a linear nester opens a new bin for a piece and at least
\* one available stock length can hold the piece, the new bin has the
\* smallest such length, in whatever order the lengths were supplied
SmallestStockSelection ==
    [][Places("w1") =>
          SmallestStockStep(OpenBins(pc["w1"], response["w1"]),
                            OpenBins(pc'["w1"], response'["w1"]),
                            ToDo(pc["w1"], response["w1"])[1],
                            Supplied(pc["w1"], data["w1"], response["w1"]))]_vars

\* the bin that takes the piece loses its length, and one kerf when it held
\* cuts before; a bin opened for the piece starts from its stock length
KerfStep(bins, after, length, kerf) ==
    /\ \A i \in DOMAIN bins :
          after[i].cuts # bins[i].cuts =>
             after[i].remaining = Leftover(bins[i], length, kerf)
    /\ Len(after) > Len(bins) =>
          after[Len(after)].remaining = after[Len(after)].stock - length

\* C20: in both linear nesters the first piece placed on a bin reduces the
\* bin's remaining capacity by exactly its length, and every later piece on
\* the same bin reduces it by its length plus one kerf
KerfAccounting ==
    [][Places("w1") =>
          KerfStep(OpenBins(pc["w1"], response["w1"]),
                   OpenBins(pc'["w1"], response'["w1"]),
                   ToDo(pc["w1"], response["w1"])[1], PackKerf(pc["w1"]))]_vars

\* ---------------------------------------------------------------------------
\* C21: best-effort fallback
\* ---------------------------------------------------------------------------
\* the unit pieces <<k, i>> of the linear results that no available stock
\* length holds together with one kerf
FallbackPieces(d, results) ==
    {ki \in UNION {{<<k, i>> : i \in DOMAIN results[k].part_refs} :
                      k \in {j \in DOMAIN results : ~results[j].is_plate}} :
        results[ki[1]].cut_lengths[ki[2]]
            + KerfFor(StockCfgFor(MappedShape(results[ki[1]].shape)))
          > MaxSeq(AvailInches(d, results[ki[1]].shape,
                               StockCfgFor(MappedShape(results[ki[1]].shape))))}

\* C21: in a committed run every unit piece for which no available stock
\* length is at least its length plus kerf opens a bin of the largest
\* available length, and the run has an oversized warning that names the
\* piece's part mark and length
FallbackWarned ==
    \A w \in Workers :
        Committed(w) =>
            \A ki \in FallbackPieces(data[w], response[w].all_results) :
                LET res == response[w].all_results[ki[1]]
                IN  /\ \E b \in DOMAIN res.bins :
                          /\ res.bins[b].cuts[1][1] = ki[2]
                          /\ res.bins[b].stock_length =
                                MaxSeq(AvailInches(data[w], res.shape,
                                                   StockCfgFor(MappedShape(res.shape))))
                    /\ \E j \in DOMAIN response[w].warnings :
                          /\ response[w].warnings[j].type = "oversized"
                          /\ response[w].warnings[j].part_mark = res.part_refs[ki[2]].part_mark
                          /\ response[w].warnings[j].part_length = res.cut_lengths[ki[2]]

\* ---------------------------------------------------------------------------
\* C22: drop tracking threshold
\* ---------------------------------------------------------------------------
\* the committed drops of the run that belong to bin b of the result
DropsOfBin(drops, run_id, res, b) ==
    {d \in RunDrops(drops, run_id) :
        /\ d.stock_index = b - 1
        /\ d.shape = res.shape /\ d.dimensions = res.dimensions
        /\ d.grade = res.grade}

\* the bins <<k, b>> of the results
BinsOf(results) ==
    UNION {{<<k, b>> : b \in DOMAIN results[k].bins} : k \in DOMAIN results}

\* C22: a committed run has exactly one NestRunDrop for each bin whose
\* leftover is greater than 6 inches and none for a bin whose leftover is 6
\* inches or less; each drop records the stock length of its bin and, as
\* drop length, the leftover of the bin; the run has no other drop
DropThresholdTracking ==
    \A w \in Workers :
        Committed(w) =>
            /\ \A kb \in BinsOf(response[w].all_results) :
                  LET res == response[w].all_results[kb[1]]
                  IN  /\ Cardinality(DropsOfBin(nest_run_drops, response[w].nest_run_id,
                                                res, kb[2]))
                            = (IF res.bins[kb[2]].remaining > DropThreshold(res)
                               THEN 1 ELSE 0)
                      /\ \A d \in DropsOfBin(nest_run_drops, response[w].nest_run_id,
                                             res, kb[2]) :
                            /\ d.stock_length_inches = res.bins[kb[2]].stock_length
                            /\ d.drop_length_inches = res.bins[kb[2]].remaining
            /\ Cardinality(RunDrops(nest_run_drops, response[w].nest_run_id))
                  = Cardinality({kb \in BinsOf(response[w].all_results) :
                        response[w].all_results[kb[1]].bins[kb[2]].remaining
                           > DropThreshold(response[w].all_results[kb[1]])})

\* a committed run with a linear bin that left a drop and another whose
\* leftover is exactly 6 inches
DropAndNoDrop ==
    \E w \in Workers :
        /\ Committed(w)
        /\ \E kb1, kb2 \in BinsOf(response[w].all_results) :
              /\ ~response[w].all_results[kb1[1]].is_plate
              /\ ~response[w].all_results[kb2[1]].is_plate
              /\ response[w].all_results[kb1[1]].bins[kb1[2]].remaining > Inch(DropThresholdInches)
              /\ response[w].all_results[kb2[1]].bins[kb2[2]].remaining = Inch(DropThresholdInches)

\* ---------------------------------------------------------------------------
\* disposition_drop, one request per slot w, its statements step by step:
\* every request has a session of its own (get_db) and the handler takes no
\* lock on the row it reads
\* ---------------------------------------------------------------------------
\* drop = db.query(NestRunDrop).get(drop_id); if drop.disposition: raise 400
\* (the drop exists); the assignments that follow stay in the session
DispositionCheck(w, drop_id, action, location, operator) ==
    /\ pc[w] = "idle"
    /\ \E drop \in nest_run_drops :
          /\ drop.id = drop_id
          /\ IF AlreadyDispositioned(drop)
             THEN /\ pc' = [pc EXCEPT ![w] = "dispositioned"]
                  /\ response' = [response EXCEPT ![w] =
                        [status |-> 400, drop_id |-> drop_id, action |-> action]]
             ELSE /\ pc' = [pc EXCEPT ![w] = "disposition"]
                  /\ response' = [response EXCEPT ![w] =
                        [status |-> 0, drop |-> drop, action |-> action,
                         location |-> location, operator |-> operator]]
    /\ UNCHANGED <<parts, tables, next_run_id, next_inv_id, reply, data, idx,
                   parts_to_nest, session>>

\* db.commit(): UPDATE of the attributes the request has set on the row of
\* the drop's id, INSERT of the inventory record built from the drop as the
\* request read it; return {"success": True, "action": action}
DispositionCommit(w) ==
    /\ pc[w] = "disposition"
    /\ \E row \in nest_run_drops :
          /\ row.id = response[w].drop.id
          /\ nest_run_drops' = (nest_run_drops \ {row}) \cup
                {[row EXCEPT !.disposition = response[w].action,
                             !.disposition_date = "utcnow",
                             !.disposition_by = response[w].operator,
                             !.inventory_location =
                                 IF response[w].action = "inventory"
                                 THEN response[w].location ELSE @]}
    /\ IF response[w].action = "inventory"
       THEN /\ material_inventory' = material_inventory \cup
                  {InventoryFromDrop(next_inv_id, response[w].drop,
                                     response[w].location, response[w].operator)}
            /\ next_inv_id' = next_inv_id + 1
       ELSE UNCHANGED <<material_inventory, next_inv_id>>
    /\ pc' = [pc EXCEPT ![w] = "dispositioned"]
    /\ response' = [response EXCEPT ![w] =
            [status |-> 200, drop_id |-> response[w].drop.id,
             action |-> response[w].action]]
    /\ UNCHANGED <<parts, nest_runs, nest_run_items, rfqs, next_run_id, reply, data,
                   idx, parts_to_nest, session>>

\* SpecDisp: run_nest requests one at a time, then disposition_drop requests
\* of the two slots side by side; a slot keeps the answer of its request
Idle == \A w \in Workers : pc[w] = "idle"

NextDisp ==
    \/ Idle /\ \E d \in OncePerPart("w1") : Begin("w1", d)
    \/ ValidatePart("w1")
    \/ Stage("w1")
    \/ Commit("w1")
    \/ Return("w1")
    \/ \E w \in Workers : \E drop \in nest_run_drops : \E action \in Actions :
          /\ pc["w1"] \in {"idle", "disposition", "dispositioned"}
          /\ DispositionCheck(w, drop.id, action, "rack", w)
    \/ \E w \in Workers : DispositionCommit(w)

SpecDisp == Init /\ [][NextDisp]_vars

\* ---------------------------------------------------------------------------
\* C23: concurrent disposition of one drop
\* ---------------------------------------------------------------------------
\* the requests that were answered with success for the drop
Succeeded(drop_id) ==
    {w \in Workers : /\ pc[w] = "dispositioned"
                      /\ response[w].status = 200
                      /\ response[w].drop_id = drop_id}

\* the inventory records that carry the material and the length of the drop
RecordsOfDrop(drop) ==
    {m \in material_inventory : /\ m.source_type = "drop"
                                /\ m.shape = drop.shape
                                /\ m.dimensions = drop.dimensions
                                /\ m.grade = drop.grade
                                /\ m.length_inches = drop.drop_length_inches}

\* C23: of the disposition_drop requests for one undispositioned drop that
\* run side by side at most one succeeds, and at most one inventory record
\* is made from the drop, however their check and write steps interleave
OneDispositionPerDrop ==
    \A drop \in nest_run_drops :
        /\ Cardinality(Succeeded(drop.id)) <= 1
        /\ (\A other \in nest_run_drops :
               other.id # drop.id => other.drop_length_inches # drop.drop_length_inches)
           => Cardinality(RecordsOfDrop(drop)) <= 1

\* ---------------------------------------------------------------------------
\* C24: what unnest_parts leaves alone
\* ---------------------------------------------------------------------------
\* C24: unnest_parts(part_ids) deletes exactly the NestRunItems whose
\* part_id is in part_ids: the items of every other part are unchanged,
\* those parts stay locked, and every run that keeps an item keeps its
\* NestRun row
UnnestDeletesOnlyNamed ==
    [][\A ids \in (SUBSET PartIds) \ {{}} :
          UnnestParts(ids) =>
             /\ nest_run_items' = {it \in nest_run_items : it.part_id \notin ids}
             /\ LockedParts(nest_run_items') = LockedParts(nest_run_items) \ ids
             /\ \A nr \in nest_runs :
                   (\E it \in nest_run_items' : it.nest_run_id = nr.id) =>
                      \E kept \in nest_runs' : kept.id = nr.id]_vars

\* a run lost the first cut of a bin to unnest_parts and keeps a later one
PartlyUnnested ==
    \E nr \in nest_runs :
       \E it \in RunItems(nest_run_items, nr.id) :
          /\ it.cut_position > 0
          /\ ~\E first \in RunItems(nest_run_items, nr.id) :
                /\ first.stock_index = it.stock_index
                /\ first.cut_position = 0

\* ---------------------------------------------------------------------------
\* SpecPlate: the sheet loop of run_nest's plate branch on one plate group,
\* one iteration of its inner loop per step
\* ---------------------------------------------------------------------------
\* piece sizes <<width, length>> in inches
PlateSizes == {<<12, 20>>, <<40, 40>>, <<100, 40>>, <<50, 96>>, <<48, 96>>,
               <<130, 10>>}

\* a catalog whose two sheets have the same area
TurnedSheetRows ==
    << [w |-> 4, l |-> 8, thickness_min |-> 0, thickness_max |-> 99],
       [w |-> 8, l |-> 4, thickness_min |-> 0, thickness_max |-> 99] >>

\* the active PL row of tracker_stock_config
PlateConfigs ==
    {NoStockCfg, StockConfig["PL"],
     [available_lengths |-> TurnedSheetRows, is_dicts |-> TRUE,
      kerf_inches |-> DefaultKerf]}

\* thickness of the group in eighths of an inch: 1/2 in, 3/4 in
PlateThicknesses == {4, 6}

PlatePieces(sizes) ==
    [i \in DOMAIN sizes |-> [width |-> Inch(sizes[i][1]),
                             length |-> Inch(sizes[i][2]),
                             part_dims |-> <<>>]]

\* run_nest has built plates and available_sheets of the group; best = None
InitSheets(w) ==
    /\ pc = [x \in Workers |-> IF x = w THEN "next_sheet" ELSE "idle"]
    /\ data = [x \in Workers |-> NoData]
    /\ \E sizes \in SeqsUpTo(PlateSizes, MaxPieces) \ {<<>>} :
       \E stock_cfg \in PlateConfigs : \E thickness \in PlateThicknesses :
          response = [x \in Workers |->
                        IF x = w
                        THEN [status |-> 0, plates |-> PlatePieces(sizes),
                              available_sheets |-> GetPlateSheets(stock_cfg, thickness),
                              kerf |-> KerfFor(stock_cfg),
                              sheet_no |-> 1, sorted_p |-> <<>>,
                              st |-> [sheets_used |-> <<>>, cur |-> EmptySheet],
                              best |-> NoBest]
                        ELSE NoResponse]

InitPlate ==
    /\ parts = LedgerParts
    /\ InitTables
    /\ idx = [w \in Workers |-> 0]
    /\ parts_to_nest = [w \in Workers |-> <<>>]
    /\ session = [w \in Workers |-> NoSession]
    /\ InitSheets("w1")

\* the sheet of the running iteration of  for sheet in available_sheets
SheetAt(r) == r.available_sheets[r.sheet_no]

\* sorted_p = sorted(enumerate(plates), ...); sheets_used = []; cur = {...}
StartSheet(w) ==
    /\ pc[w] = "next_sheet"
    /\ response[w].sheet_no <= Len(response[w].available_sheets)
    /\ response' = [response EXCEPT ![w] =
            [@ EXCEPT !.sorted_p = SortedByArea(response[w].plates,
                                                Len(response[w].plates)),
                      !.st = [sheets_used |-> <<>>, cur |-> EmptySheet]]]
    /\ pc' = [pc EXCEPT ![w] = "place_plates"]
    /\ UNCHANGED <<parts, tables, next_run_id, next_inv_id, reply, data, idx,
                   parts_to_nest, session>>

\* one iteration of  for orig_idx, pl in sorted_p
PlaceNextPlate(w) ==
    /\ pc[w] = "place_plates"
    /\ response[w].sorted_p # <<>>
    /\ response' = [response EXCEPT ![w] =
            [@ EXCEPT !.st = PlacePlate(@, Head(response[w].sorted_p),
                                        Feet(SheetAt(response[w]).w),
                                        Feet(SheetAt(response[w]).l),
                                        response[w].kerf),
                      !.sorted_p = Tail(@)]]
    /\ UNCHANGED <<parts, tables, next_run_id, next_inv_id, reply, pc, data, idx,
                   parts_to_nest, session>>

\* sheets_used.append(cur); the empty sheets are filtered out; util; best
KeepBest(w) ==
    /\ pc[w] = "place_plates"
    /\ response[w].sorted_p = <<>>
    /\ response' = [response EXCEPT ![w] =
            [@ EXCEPT !.best = BetterOf(@, Candidate(SheetAt(response[w]),
                                                     response[w].plates,
                                                     UsedSheets(response[w].st))),
                      !.sheet_no = @ + 1]]
    /\ pc' = [pc EXCEPT ![w] = "next_sheet"]
    /\ UNCHANGED <<parts, tables, next_run_id, next_inv_id, reply, data, idx,
                   parts_to_nest, session>>

NextPlate ==
    \/ StartSheet("w1")
    \/ PlaceNextPlate("w1")
    \/ KeepBest("w1")

SpecPlate == InitPlate /\ [][NextPlate]_vars

\* ---------------------------------------------------------------------------
\* Properties of the plate sheet loop
\* ---------------------------------------------------------------------------
\* the loop over available_sheets has run to its end
SheetsTried(w) ==
    /\ pc[w] = "next_sheet"
    /\ response[w].status = 0
    /\ response[w].sheet_no > Len(response[w].available_sheets)

\* sheet count times sheet area of candidate j, from a packing of its own.
\* Every candidate divides the same total piece area by it, so the
\* utilization of i is at least that of j exactly when this area of i is at
\* most that of j.
SheetAreaOf(r, j) ==
    Len(SheetsUsedFor(r.plates, r.available_sheets[j], r.kerf))
        * Feet(r.available_sheets[j].w) * Feet(r.available_sheets[j].l)

\* candidate i is the one kept
KeptAt(r, i) ==
    /\ r.best.sheet = r.available_sheets[i]
    /\ r.best.sheets_used = SheetsUsedFor(r.plates, r.available_sheets[i], r.kerf)
    /\ r.best.util.den = SheetAreaOf(r, i)
    /\ \A j \in DOMAIN r.available_sheets :
          /\ SheetAreaOf(r, i) <= SheetAreaOf(r, j)
          /\ j < i => SheetAreaOf(r, i) < SheetAreaOf(r, j)

\* C25: when the sheet loop of a plate group ends, the kept sheet is one of
\* the candidates returned for the group's thickness, packed by the strip
\* packer, its utilization is at least that of every candidate, and every
\* earlier candidate has a strictly smaller one (a tie keeps the earlier).
PlateSheetSelection ==
    \A w \in Workers :
        SheetsTried(w) =>
            \E i \in DOMAIN response[w].available_sheets : KeptAt(response[w], i)

\* C25 witness: the first candidate is kept although a later one has the
\* same utilization
TieKeepsEarlier ==
    /\ SheetsTried("w1")
    /\ KeptAt(response["w1"], 1)
    /\ \E j \in DOMAIN response["w1"].available_sheets :
          j > 1 /\ SheetAreaOf(response["w1"], j) = SheetAreaOf(response["w1"], 1)

\* a later candidate is kept because its utilization is greater
LaterSheetKept ==
    /\ SheetsTried("w1")
    /\ \E i \in DOMAIN response["w1"].available_sheets :
          i > 1 /\ KeptAt(response["w1"], i)

\* the sheets of the running packing, the current one last
AllSheets(st) == Append(st.sheets_used, st.cur)

FitsSheet(ow, ol, sheet) == ow <= Feet(sheet.w) /\ ol <= Feet(sheet.l)

\* the piece fits the sheet in at least one of its two orientations
FitsSomeWay(p, sheet) ==
    FitsSheet(p.width, p.length, sheet) \/ FitsSheet(p.length, p.width, sheet)

\* the plate sheet loop is packing a candidate
Packing(w) == pc[w] = "place_plates" /\ response[w].status = 0

\* C26: every cut of the running packing is its piece in one of the two
\* orientations, and the cut of a piece that fits the sheet in at least one
\* orientation lies within the sheet's width and length; so the cut of an
\* own oversized strip belongs to a piece that fits in neither.
PlateOrientation ==
    \A w \in Workers :
        Packing(w) =>
            \A s \in DOMAIN AllSheets(response[w].st) :
            \A k \in DOMAIN AllSheets(response[w].st)[s].strips :
            \A c \in DOMAIN AllSheets(response[w].st)[s].strips[k].cuts :
                LET cut == AllSheets(response[w].st)[s].strips[k].cuts[c]
                    p == response[w].plates[cut[1]]
                IN  /\ <<cut[2], cut[3]>> \in {<<p.width, p.length>>,
                                               <<p.length, p.width>>}
                    /\ FitsSomeWay(p, SheetAt(response[w]))
                          => FitsSheet(cut[2], cut[3], SheetAt(response[w]))

\* C26 witness: a piece that does not fit the sheet as given has been cut
\* turned
CutTurned ==
    /\ Packing("w1")
    /\ \E s \in DOMAIN AllSheets(response["w1"].st) :
       \E k \in DOMAIN AllSheets(response["w1"].st)[s].strips :
       \E c \in DOMAIN AllSheets(response["w1"].st)[s].strips[k].cuts :
          LET cut == AllSheets(response["w1"].st)[s].strips[k].cuts[c]
              p == response["w1"].plates[cut[1]]
          IN  /\ ~FitsSheet(p.width, p.length, SheetAt(response["w1"]))
              /\ <<cut[2], cut[3]>> = <<p.length, p.width>>
              /\ FitsSheet(cut[2], cut[3], SheetAt(response["w1"]))

\* a piece that fits the sheet in neither orientation is on a strip
OversizedOnStrip ==
    /\ Packing("w1")
    /\ \E s \in DOMAIN AllSheets(response["w1"].st) :
       \E k \in DOMAIN AllSheets(response["w1"].st)[s].strips :
       \E c \in DOMAIN AllSheets(response["w1"].st)[s].strips[k].cuts :
          ~FitsSomeWay(response["w1"].plates[
                           AllSheets(response["w1"].st)[s].strips[k].cuts[c][1]],
                       SheetAt(response["w1"]))

RECURSIVE SumCutLengths(_)
SumCutLengths(cuts) ==
    IF cuts = <<>> THEN 0 ELSE Head(cuts)[3] + SumCutLengths(Tail(cuts))

RECURSIVE SumStripHeights(_)
SumStripHeights(strips) ==
    IF strips = <<>> THEN 0 ELSE Head(strips).h + SumStripHeights(Tail(strips))

\* the sheet holds a cut that exceeds the sheet's width or length
HoldsOversized(sh, sheet) ==
    \E k \in DOMAIN sh.strips : \E c \in DOMAIN sh.strips[k].cuts :
        ~FitsSheet(sh.strips[k].cuts[c][2], sh.strips[k].cuts[c][3], sheet)

\* widths within the strip, lengths plus kerfs within the sheet length,
\* strip heights plus kerfs within the sheet width
SheetIsSafe(sh, sheet, kerf) ==
    /\ \A k \in DOMAIN sh.strips :
          /\ \A c \in DOMAIN sh.strips[k].cuts :
                sh.strips[k].cuts[c][2] <= sh.strips[k].h
          /\ SumCutLengths(sh.strips[k].cuts)
                + kerf * (Len(sh.strips[k].cuts) - 1) <= Feet(sheet.l)
    /\ sh.strips # <<>> =>
          SumStripHeights(sh.strips) + kerf * (Len(sh.strips) - 1) <= Feet(sheet.w)

\* C30: on every sheet of the running packing that holds no oversized piece,
\* each cut's oriented width is at most the height of its strip, the cut
\* lengths of a strip plus one kerf between consecutive cuts are at most the
\* sheet length, and the strip heights plus one kerf between consecutive
\* strips are at most the sheet width.
StripPackerSafe ==
    \A w \in Workers :
        Packing(w) =>
            \A s \in DOMAIN AllSheets(response[w].st) :
                ~HoldsOversized(AllSheets(response[w].st)[s], SheetAt(response[w]))
                    => SheetIsSafe(AllSheets(response[w].st)[s],
                                   SheetAt(response[w]), response[w].kerf)

\* C30 witness: a sheet without oversized piece has two strips, one of them
\* with two cuts
TwoStripsTwoCuts ==
    /\ Packing("w1")
    /\ \E s \in DOMAIN AllSheets(response["w1"].st) :
          LET sh == AllSheets(response["w1"].st)[s]
          IN  /\ ~HoldsOversized(sh, SheetAt(response["w1"]))
              /\ Len(sh.strips) >= 2
              /\ \E k \in DOMAIN sh.strips : Len(sh.strips[k].cuts) >= 2

\* ---------------------------------------------------------------------------
\* Inventory-first placement in nest_linear
\* ---------------------------------------------------------------------------
\* shape, dimensions and grade of the inventory item are those of the group,
\* letter case aside
MatchesGroup(inv_item, key) ==
    /\ Upper(inv_item.shape) = Upper(key[1])
    /\ UpperSeq(inv_item.dimensions) = UpperSeq(key[2])
    /\ Upper(inv_item.grade) = Upper(key[3])

\* the bars of the list that come from inventory item inv_item
BarsOfItem(bars, inv_item) ==
    {b \in DOMAIN bars : bars[b].from_inventory /\ bars[b].inventory_id = inv_item.id}

\* the working bar list holds, for every inventory item of the group's
\* material, as many from_inventory bars as the item's quantity, each of
\* the item's length, and no other bar
SeededFrom(bars, inventory, key) ==
    /\ \A i \in DOMAIN inventory :
          /\ Cardinality(BarsOfItem(bars, inventory[i])) =
                (IF MatchesGroup(inventory[i], key) THEN inventory[i].quantity ELSE 0)
          /\ \A b \in BarsOfItem(bars, inventory[i]) :
                /\ bars[b].stock_length_inches = inventory[i].length_inches
                /\ bars[b].remaining_inches = inventory[i].length_inches
                /\ bars[b].cuts = <<>>
    /\ \A b \in DOMAIN bars :
          /\ bars[b].from_inventory
          /\ \E i \in DOMAIN inventory : b \in BarsOfItem(bars, inventory[i])

\* the open bars that can hold the piece: a bar that holds cuts already
\* needs the kerf too
BarsHolding(bars, piece, kerf) ==
    {b \in DOMAIN bars :
        bars[b].remaining_inches - piece.length_inches
            - (IF bars[b].cuts # <<>> THEN kerf ELSE 0) >= 0}

\* an iteration that adds a bar adds a purchased one, and only when no open
\* bar can hold the piece; it never adds an inventory bar
PurchasedWhenNeeded(bars, after, piece, kerf) ==
    /\ Len(after) \in {Len(bars), Len(bars) + 1}
    /\ \A b \in DOMAIN bars :
          /\ after[b].from_inventory = bars[b].from_inventory
          /\ after[b].inventory_id = bars[b].inventory_id
    /\ BarsHolding(bars, piece, kerf) # {} => Len(after) = Len(bars)
    /\ Len(after) = Len(bars) + 1 =>
          /\ ~after[Len(after)].from_inventory
          /\ after[Len(after)].cuts = <<piece>>

\* the step seeds the working bar list of slot w
SeedsBars(w) == pc[w] = "sort_pieces" /\ pc'[w] = "place_pieces"

\* the step is one iteration of nest_linear's loop over the pieces
PlacesPiece(w) == pc[w] = "place_pieces" /\ response'[w] # response[w]

\* C27: nest_linear starts the bar list of a group with one from_inventory
\* bar per unit of quantity of every inventory item of the group's shape,
\* dimensions and grade, each of the item's length, and opens a purchased
\* bar for a piece only when no open bar, inventory bars included, can hold
\* the piece.
InventoryFirst ==
    [][/\ SeedsBars("w1") =>
             SeededFrom(response'["w1"].st.bars, response["w1"].inventory, PackKey)
       /\ PlacesPiece("w1") =>
             PurchasedWhenNeeded(response["w1"].st.bars, response'["w1"].st.bars,
                                 Head(response["w1"].group_pieces), KERF)]_vars

\* C27 witness: the list was seeded with two bars of one inventory item, an
\* inventory bar holds a cut and a purchased bar has been opened
InventoryThenPurchased ==
    /\ pc["w1"] = "place_pieces"
    /\ \E i \in DOMAIN response["w1"].inventory :
          Cardinality(BarsOfItem(response["w1"].st.bars,
                                 response["w1"].inventory[i])) = 2
    /\ \E a, b \in DOMAIN response["w1"].st.bars :
          /\ response["w1"].st.bars[a].from_inventory
          /\ response["w1"].st.bars[a].cuts # <<>>
          /\ ~response["w1"].st.bars[b].from_inventory

\* ---------------------------------------------------------------------------
\* SpecStock: the choice of the stock lengths of one linear group in
\* run_nest and the packing that uses them, one iteration per step
\* ---------------------------------------------------------------------------
\* shapes of the group: with catalog row (W, also entered in lower case)
\* and without (C)
StockShapes == {"W", "w", "C"}

\* stock_overrides, in sixteenths of a foot: none, an empty entry for W,
\* 5 ft and 10 ft for W, for C, and for L only
StockOverrides ==
    {NoOverrides,
     [c \in {"W"} |-> <<>>],
     [c \in {"W"} |-> <<160, 80>>],
     [c \in {"C"} |-> <<160, 80>>],
     [c \in {"L"} |-> <<160, 80>>]}

\* stock_length_inches of the request: negative, 0 (auto) and 80 in
StockForced == {0 - Inch(1), 0, ForcedStock}

\* piece lengths: 50 in, 70 in and 30 ft
StockCuts == {Inch(50), Inch(70), Feet(30)}

\* run_nest has expanded cut_lengths of the group
InitStock ==
    /\ parts = LedgerParts
    /\ InitTables
    /\ idx = [w \in Workers |-> 0]
    /\ parts_to_nest = [w \in Workers |-> <<>>]
    /\ session = [w \in Workers |-> NoSession]
    /\ pc = [x \in Workers |-> IF x = "w1" THEN "stock_lengths" ELSE "idle"]
    /\ \E overrides \in StockOverrides : \E forced \in StockForced :
          data = [x \in Workers |->
                    IF x = "w1"
                    THEN [part_ids |-> <<>>, stock_length_inches |-> forced,
                          stock_overrides |-> overrides, operator |-> "w1",
                          nest_mode |-> "mult"]
                    ELSE NoData]
    /\ \E shape \in StockShapes :
       \E cut_lengths \in SeqsUpTo(StockCuts, MaxPieces) \ {<<>>} :
          response = [x \in Workers |->
                        IF x = "w1"
                        THEN [status |-> 0, shape |-> shape,
                              cut_lengths |-> cut_lengths,
                              avail_inches |-> <<>>, indexed |-> <<>>,
                              bins |-> <<>>]
                        ELSE NoResponse]

\* avail_inches = ...; indexed = sorted(enumerate(cut_lengths), ...); bins = []
GetStockLengths(w) ==
    /\ pc[w] = "stock_lengths"
    /\ response' = [response EXCEPT ![w] =
            [@ EXCEPT !.avail_inches =
                          AvailInches(data[w], response[w].shape,
                                      StockCfgFor(MappedShape(response[w].shape))),
                      !.indexed = IndexedDesc(response[w].cut_lengths,
                                              Len(response[w].cut_lengths)),
                      !.bins = <<>>]]
    /\ pc' = [pc EXCEPT ![w] = "pack_stock"]
    /\ UNCHANGED <<parts, tables, next_run_id, next_inv_id, reply, data, idx,
                   parts_to_nest, session>>

\* one iteration of  for orig_idx, length in indexed
PackNextCut(w) ==
    /\ pc[w] = "pack_stock"
    /\ response[w].indexed # <<>>
    /\ response' = [response EXCEPT ![w] =
            [@ EXCEPT !.bins = PlaceCut(@, Head(response[w].indexed),
                                        response[w].avail_inches,
                                        KerfFor(StockCfgFor(
                                            MappedShape(response[w].shape)))),
                      !.indexed = Tail(@)]]
    /\ UNCHANGED <<parts, tables, next_run_id, next_inv_id, reply, pc, data, idx,
                   parts_to_nest, session>>

NextStock ==
    \/ GetStockLengths("w1")
    \/ PackNextCut("w1")

SpecStock == InitStock /\ [][NextStock]_vars

\* the elements of a sequence
Elements(s) == {s[i] : i \in DOMAIN s}

\* the request's override entry for the group's shape, <<>> when it has none
OverrideEntry(d, shape) ==
    IF Upper(shape) \in DOMAIN d.stock_overrides
    THEN d.stock_overrides[Upper(shape)] ELSE <<>>

\* the lengths of the active catalog row of the group's shape, in feet
CatalogFeet(shape) == StockCfgFor(MappedShape(shape)).available_lengths

\* the lengths of the source that takes precedence, in eighths of an inch
PrecedentLengths(d, shape) ==
    IF OverrideEntry(d, shape) # <<>>
    THEN Elements(OverrideInches(OverrideEntry(d, shape)))
    ELSE IF d.stock_length_inches > 0 THEN {d.stock_length_inches}
    ELSE IF CatalogFeet(shape) # <<>> THEN {Feet(ft) : ft \in Elements(CatalogFeet(shape))}
    ELSE {Inch(DefaultStockInches)}

\* C28: the available lengths of a linear group are exactly those of the
\* first source that exists among the shape's non-empty stock_overrides
\* entry, the positive forced stock_length_inches, the active catalog
\* entry and the built-in default, and every bin is opened with one of them.
StockPrecedence ==
    \A w \in Workers :
        pc[w] = "pack_stock" =>
            /\ Elements(response[w].avail_inches) = PrecedentLengths(data[w], response[w].shape)
            /\ \A b \in DOMAIN response[w].bins :
                  response[w].bins[b].stock_length
                      \in PrecedentLengths(data[w], response[w].shape)

\* C28 witness: the request holds an override entry and a forced length for
\* a shape with a catalog row, and a bin of an override length is open
OverrideBeatsForced ==
    /\ pc["w1"] = "pack_stock"
    /\ OverrideEntry(data["w1"], response["w1"].shape) # <<>>
    /\ data["w1"].stock_length_inches > 0
    /\ CatalogFeet(response["w1"].shape) # <<>>
    /\ \E b \in DOMAIN response["w1"].bins :
          response["w1"].bins[b].stock_length
              \in Elements(OverrideInches(OverrideEntry(data["w1"], response["w1"].shape)))

\* a bin of the forced length, of a catalog length, of the default length
ForcedBeatsCatalog ==
    /\ pc["w1"] = "pack_stock"
    /\ OverrideEntry(data["w1"], response["w1"].shape) = <<>>
    /\ data["w1"].stock_length_inches > 0
    /\ CatalogFeet(response["w1"].shape) # <<>>
    /\ response["w1"].bins # <<>>

CatalogUsed ==
    /\ pc["w1"] = "pack_stock"
    /\ "W" \in DOMAIN data["w1"].stock_overrides
    /\ data["w1"].stock_length_inches < 0
    /\ response["w1"].shape = "w"
    /\ \E b \in DOMAIN response["w1"].bins :
          response["w1"].bins[b].stock_length
              \in {Feet(ft) : ft \in Elements(CatalogFeet("w"))}

DefaultUsed ==
    /\ pc["w1"] = "pack_stock"
    /\ \E b \in DOMAIN response["w1"].bins :
          response["w1"].bins[b].stock_length = Inch(DefaultStockInches)

\* ---------------------------------------------------------------------------
\* SpecRfq: one caller of run_nest and a second client who creates an RFQ
\* from the run once it is committed
\* ---------------------------------------------------------------------------
\* forced stock length of the requests: 78 in (6.5 ft), or none
RfqStock == {0, Inch(78)}

RfqRequests ==
    {[d EXCEPT !.stock_length_inches = sl] : d \in OncePerPart("w1"), sl \in RfqStock}

NextRfq ==
    \/ Cleared /\ \E d \in RfqRequests : Begin("w1", d)
    \/ ValidatePart("w1")
    \/ Stage("w1")
    \/ Commit("w1")
    \/ Return("w1")
    \/ pc["w1"] = "idle" /\ \E nr \in nest_runs : DeleteNestRun(nr.id)
    \/ /\ Committed("w1")
       /\ \A rfq \in rfqs : rfq.nest_run_id # response["w1"].nest_run_id
       /\ CreateRfq(1, response["w1"].nest_run_id)

SpecRfq == Init /\ [][NextRfq]_vars

\* the bins <<k, b>> of the results that hold the material of the line and
\* whose stock length is the line's length (tenths against eighths of an inch)
BinsOfLine(results, line) ==
    {kb \in BinsOf(results) :
        /\ results[kb[1]].shape = line.shape
        /\ results[kb[1]].dimensions = line.dimensions
        /\ results[kb[1]].grade = line.grade
        /\ results[kb[1]].bins[kb[2]].stock_length * 10
              = line.length_inches * UnitsPerInch}

\* C29: every line of an RFQ created from a committed run has the stock
\* length of bins of the run that hold its material, its qty is the number
\* of the run's bins of that material and stock length, and every bin of
\* the run, with or without tracked drop, is counted by a line.
RfqFromActualStock ==
    \A w \in Workers :
        Committed(w) =>
            \A rfq \in rfqs :
                rfq.nest_run_id = response[w].nest_run_id =>
                    /\ \A i \in DOMAIN rfq.items :
                          /\ BinsOfLine(response[w].all_results, rfq.items[i]) # {}
                          /\ rfq.items[i].qty =
                                Cardinality(BinsOfLine(response[w].all_results, rfq.items[i]))
                    /\ \A kb \in BinsOf(response[w].all_results) :
                          \E i \in DOMAIN rfq.items :
                              kb \in BinsOfLine(response[w].all_results, rfq.items[i])

\* an RFQ of a committed run whose bins all left a tracked drop has the
\* lines the claim describes
RfqOfTrackedBins ==
    \E w \in Workers :
        /\ Committed(w)
        /\ Len(response[w].all_results) > 0
        /\ \E rfq \in rfqs :
              /\ rfq.nest_run_id = response[w].nest_run_id
              /\ rfq.items # <<>>
              /\ \A i \in DOMAIN rfq.items :
                    rfq.items[i].qty =
                        Cardinality(BinsOfLine(response[w].all_results, rfq.items[i]))

\* ---------------------------------------------------------------------------
\* Yield
\* ---------------------------------------------------------------------------
\* C31: the yield_percentage of every committed NestRun and the yield_pct of
\* every plate group of a committed run lie between 0 and 100 (in tenths of
\* a percent: between 0 and 1000).
YieldWithinRange ==
    /\ \A nr \in nest_runs :
          nr.yield_percentage >= 0 /\ nr.yield_percentage <= 1000
    /\ \A w \in Workers :
          Committed(w) =>
              \A k \in DOMAIN response[w].all_results :
                  response[w].all_results[k].is_plate =>
                      /\ response[w].all_results[k].yield_pct >= 0
                      /\ response[w].all_results[k].yield_pct <= 1000

\* a committed run of full yield, and a committed run with a plate group
FullYield == \E nr \in nest_runs : nr.yield_percentage = 1000

PlateYieldReported ==
    \E w \in Workers :
        /\ Committed(w)
        /\ \E k \in DOMAIN response[w].all_results :
              /\ response[w].all_results[k].is_plate
              /\ response[w].all_results[k].yield_pct > 0

\* ---------------------------------------------------------------------------
\* Drops against their stock
\* ---------------------------------------------------------------------------
\* the drop's length is at most its stock length, as numbers: a sheet's drop
\* length is kept in 64ths, a length in eighths
WithinStock(res, d) ==
    IF res.is_plate
    THEN d.drop_length_inches <= d.stock_length_inches * UnitsPerInch
    ELSE d.drop_length_inches <= d.stock_length_inches

\* C32: every NestRunDrop of a committed run, from a linear bin or a plate
\* sheet, has 6 < drop_length_inches <= stock_length_inches.
DropWithinStock ==
    \A w \in Workers :
        Committed(w) =>
            \A kb \in BinsOf(response[w].all_results) :
                \A d \in DropsOfBin(nest_run_drops, response[w].nest_run_id,
                                    response[w].all_results[kb[1]], kb[2]) :
                    /\ d.drop_length_inches > DropThreshold(response[w].all_results[kb[1]])
                    /\ WithinStock(response[w].all_results[kb[1]], d)

\* the same of the drops of linear bins only
LinearDropWithinStock ==
    \A w \in Workers :
        Committed(w) =>
            \A kb \in BinsOf(response[w].all_results) :
                ~response[w].all_results[kb[1]].is_plate =>
                    \A d \in DropsOfBin(nest_run_drops, response[w].nest_run_id,
                                        response[w].all_results[kb[1]], kb[2]) :
                        /\ d.drop_length_inches > DropThreshold(response[w].all_results[kb[1]])
                        /\ WithinStock(response[w].all_results[kb[1]], d)

\* ---------------------------------------------------------------------------
\* delete_nest_run and the inventory made from other runs' drops
\* ---------------------------------------------------------------------------
\* SpecTwins: the ledger's parts are one piece each of one material and
\* length, so the drops of their runs are alike; one client nests them,
\* dispositions drops with any form value and deletes runs
TwinParts ==
    [i \in PartIds |-> [part_mark |-> Mark(i)] @@ LinearRow(ShortPiece, 1)]

InitTwins ==
    /\ parts = TwinParts
    /\ InitTables
    /\ InitLocals

\* action: str = Form(...): the form field takes any string
FormActions == Actions \cup {"trash"}

NextTwins ==
    \/ Quiet /\ \E d \in OncePerPart("w1") : Begin("w1", d)
    \/ ValidatePart("w1")
    \/ Stage("w1")
    \/ Commit("w1")
    \/ Return("w1")
    \/ Quiet /\ \E nr \in nest_runs : DeleteNestRun(nr.id)
    \/ Quiet /\ \E drop \in nest_run_drops : \E action \in FormActions :
          DispositionDrop(drop.id, action, "rack", "amy")
    \/ DeliverReply

SpecTwins == InitTwins /\ [][NextTwins]_vars

\* the runs a step removes
RemovedRuns == {nr.id : nr \in nest_runs} \ {nr.id : nr \in nest_runs'}

\* the drops of the removed runs that were put into inventory: each of them
\* made exactly one MaterialInventory row when it was dispositioned
OwnInventoryDrops ==
    {d \in nest_run_drops : d.nest_run_id \in RemovedRuns /\ d.disposition = "inventory"}

\* C33: delete_nest_run(R) removes only the inventory rows that originated
\* from R's own drops: a step removes no more MaterialInventory rows than the
\* removed run has drops in inventory, and each removed row has the shape,
\* dimensions and length of such a drop, so the rows made from other runs'
\* drops stay
DeleteRemovesOwnInventory ==
    [][/\ Cardinality(material_inventory \ material_inventory')
            <= Cardinality(OwnInventoryDrops)
       /\ \A m \in material_inventory \ material_inventory' :
            \E d \in OwnInventoryDrops : m \in InventoryOfDrop(material_inventory, d)]_vars

\* two live runs each have a drop in inventory, of one shape, size and length
TwoRunsSameDrop ==
    \E d1, d2 \in nest_run_drops :
        /\ d1.nest_run_id # d2.nest_run_id
        /\ d1.disposition = "inventory" /\ d2.disposition = "inventory"
        /\ InventoryOfDrop(material_inventory, d1) = InventoryOfDrop(material_inventory, d2)
        /\ Cardinality(InventoryOfDrop(material_inventory, d1)) = 2

\* ---------------------------------------------------------------------------
\* RFQs and the nest runs they name
\* ---------------------------------------------------------------------------
\* C34: in every state reached by create_rfq, delete_nest_run and
\* unnest_parts each RFQ's nest_run_id is null or the id of a NestRun that
\* exists
RfqsPointAtRuns ==
    \A rfq \in rfqs :
        rfq.nest_run_id = NullId \/ \E nr \in nest_runs : nr.id = rfq.nest_run_id

\* delete_nest_run and unnest_parts leave no RFQ that names a run they remove
RemovedRunsUnreferenced ==
    [][\A rfq \in rfqs' : rfq.nest_run_id \notin RemovedRuns]_vars

\* ---------------------------------------------------------------------------
\* Runs and their items
\* ---------------------------------------------------------------------------
\* SpecImport: parts as the importer stores them; a part whose XML has no
\* PartQuantity gets quantity 0 (xml_parser._int).  One client nests,
\* unnests and deletes
ImportedRows == {LinearRow(ShortPiece, q) : q \in 0..1}

InitImport ==
    /\ parts \in PartTables(ImportedRows)
    /\ InitTables
    /\ InitLocals

NextImport ==
    \/ Quiet /\ \E d \in OncePerPart("w1") : Begin("w1", d)
    \/ ValidatePart("w1")
    \/ Stage("w1")
    \/ Commit("w1")
    \/ Return("w1")
    \/ Quiet /\ \E nr \in nest_runs : DeleteNestRun(nr.id)
    \/ Quiet /\ \E ids \in (SUBSET PartIds) \ {{}} : UnnestParts(ids)

SpecImport == InitImport /\ [][NextImport]_vars

\* C35: in every state reached by run_nest, unnest_parts and delete_nest_run
\* every persisted NestRun has at least one NestRunItem
NoEmptyRun ==
    \A nr \in nest_runs : \E it \in nest_run_items : it.nest_run_id = nr.id


\* a run is committed for parts that all have quantity 0
RunOfNothing ==
    \E w \in Workers :
        /\ Committed(w)
        /\ \A i \in DOMAIN parts_to_nest[w] : parts_to_nest[w][i].quantity = 0
        /\ RunItems(nest_run_items, response[w].nest_run_id) = {}

\* unnest_parts and delete_nest_run leave no run without items behind: a
\* run that had items before their step and stays has items after it
NoRunEmptied ==
    [][\A nr \in nest_runs' :
          RunItems(nest_run_items, nr.id) # {} => RunItems(nest_run_items', nr.id) # {}]_vars


\* ---------------------------------------------------------------------------
\* The values of a drop's disposition
\* ---------------------------------------------------------------------------
\* C36: a NestRunDrop's disposition is always unset, 'inventory' or
\* 'scrap'; disposition_drop succeeds with no other action value, so a call
\* with another value leaves the drop undispositioned
DispositionDomain ==
    /\ \A drop \in nest_run_drops :
          ~AlreadyDispositioned(drop) \/ drop.disposition \in Actions
    /\ ("action" \in DOMAIN reply /\ reply.status = 200) => reply.action \in Actions

\* ---------------------------------------------------------------------------
\* Stock on which nothing was placed
\* ---------------------------------------------------------------------------
\* a NestResult is held by slot w
Nested(w) == pc[w] = "nested"

\* the bars of a NestResult that hold a cut
UsedBarCount(bars) == Cardinality({i \in DOMAIN bars : bars[i].cuts # <<>>})

\* C37: every bar returned by nest_linear and every bin persisted by
\* run_nest holds at least one cut, and total_bars counts the bars that
\* hold one: stock on which nothing was placed is not reported as used
OnlyUsedStock ==
    \A w \in Workers :
        /\ Nested(w) =>
             /\ \A i \in DOMAIN response[w].result.bars :
                    response[w].result.bars[i].cuts # <<>>
             /\ response[w].result.summary.total_bars
                    = UsedBarCount(response[w].result.bars)
        /\ Committed(w) =>
             \A kb \in BinsOf(response[w].all_results) :
                 response[w].all_results[kb[1]].bins[kb[2]].cuts # <<>>

\* every bin persisted by run_nest holds at least one cut
BinsHoldCuts ==
    \A w \in Workers : Committed(w) =>
        \A kb \in BinsOf(response[w].all_results) :
            response[w].all_results[kb[1]].bins[kb[2]].cuts # <<>>

\* a NestResult whose inventory bar took no piece
IdleInventoryBar ==
    \E w \in Workers :
        /\ Nested(w)
        /\ \E i \in DOMAIN response[w].result.bars :
              /\ response[w].result.bars[i].from_inventory
              /\ response[w].result.bars[i].cuts = <<>>
        /\ response[w].result.summary.from_inventory = 1

\* ---------------------------------------------------------------------------
\* nest_linear: one inventory, several material groups
\* ---------------------------------------------------------------------------
\* SpecCase: parts of one material whose shape and grade are entered in
\* upper or lower case; nest_linear is called on them with inventory of
\* that material
CaseRows ==
    {PartRow(s, W8X10, g, ShortPiece, 1, 1) : s \in {"W", "w"}, g \in {"A992", "a992"}}

\* inventory items of the material: one 30 in bar, two 60 in bars
CaseItem(id, length_inches, quantity) ==
    [id |-> id, shape |-> "W", dimensions |-> W8X10, grade |-> "A992",
     length_inches |-> length_inches, quantity |-> quantity]

CaseItems == {CaseItem(1, Inch(30), 1), CaseItem(2, Inch(60), 2)}

CaseInventories ==
    {<<>>, << CaseItem(1, Inch(30), 1) >>, << CaseItem(2, Inch(60), 2) >>,
     << CaseItem(1, Inch(30), 1), CaseItem(2, Inch(60), 2) >>}

InitCase ==
    /\ parts \in PartTables(CaseRows)
    /\ InitTables
    /\ InitLocals

NextCase ==
    \/ \E ids \in SeqsUpTo(PartIds, MaxPartIds) \ {<<>>} : \E inv \in CaseInventories :
          NestLinear("w1", ids, DEFAULT_STOCK_LENGTHS, inv)
    \/ ReturnLinear("w1")

SpecCase == InitCase /\ [][NextCase]_vars

\* the from_inventory bars of a NestResult made from one inventory item
BarsFromItem(bars, id) ==
    {i \in DOMAIN bars : bars[i].from_inventory /\ bars[i].inventory_id = id}

\* C38: within one nest_linear call, over all material groups together, an
\* inventory item with quantity q yields at most q from_inventory bars
InventoryOfferedOnce ==
    \A w \in Workers : Nested(w) =>
        \A item \in CaseItems :
            Cardinality(BarsFromItem(response[w].result.bars, item.id)) <= item.quantity

\* the same bound for the calls whose pieces form one material group
OneGroupOfferedOnce ==
    \A w \in Workers :
        (/\ Nested(w)
         /\ \A i, j \in DOMAIN response[w].pieces :
               /\ response[w].pieces[i].shape = response[w].pieces[j].shape
               /\ response[w].pieces[i].grade = response[w].pieces[j].grade)
        => \A item \in CaseItems :
               Cardinality(BarsFromItem(response[w].result.bars, item.id)) <= item.quantity

\* ---------------------------------------------------------------------------
\* stock_index within one run
\* ---------------------------------------------------------------------------
\* C39: within one NestRun stock_index identifies a single stock piece: two
\* bins of the run never share a stock_index, <<stock_index, cut_position>>
\* is unique among the run's items and at most one drop of the run has a
\* given stock_index
StockIndexIdentifiesBin ==
    \A w \in Workers : Committed(w) =>
        /\ \A kb1, kb2 \in BinsOf(response[w].all_results) :
              kb1[2] = kb2[2] => kb1 = kb2
        /\ \A i, j \in RunItems(nest_run_items, response[w].nest_run_id) :
              (i.stock_index = j.stock_index /\ i.cut_position = j.cut_position) => i = j
        /\ \A d, e \in RunDrops(nest_run_drops, response[w].nest_run_id) :
              d.stock_index = e.stock_index => d = e

\* the same for the runs of one material group
OneGroupStockIndex ==
    \A w \in Workers : (Committed(w) /\ Len(response[w].all_results) <= 1) =>
        /\ \A i, j \in RunItems(nest_run_items, response[w].nest_run_id) :
              (i.stock_index = j.stock_index /\ i.cut_position = j.cut_position) => i = j
        /\ \A d, e \in RunDrops(nest_run_drops, response[w].nest_run_id) :
              d.stock_index = e.stock_index => d = e

====
